---- MODULE Spec2Model ----
(***************************************************************************)
(* A model of the Echelon reactive runtime: the renderer (field binder,    *)
(* instance manager, render walker), the global store and the dependency   *)
(* tracker the renderer imports.  Execution is single threaded, so every   *)
(* public operation (mount, a field write, a dispatched event, update())   *)
(* is one action; the synchronous call chain it starts is computed by      *)
(* operators that thread a world record W through the calls.               *)
(***************************************************************************)
EXTENDS Integers, Sequences, FiniteSets, TLC

(* ------------------------------ bounds --------------------------------- *)

\* field values are 0..MaxVal
MaxVal == 1
\* DOM nodes that one behaviour may allocate
MaxNodes == 24
\* component instances that one behaviour may create
MaxInsts == 5
\* callbacks one Set.forEach may run before the call is taken not to return
MaxIter == 4
\* call frames the engine allows before it throws RangeError
StackLimit == 8
\* calls of mount in one run
MaxMounts == 1
\* lifecycle hooks one instance may have run
MaxHooks == 8
\* calls of mount in a run that mounts into the same container again
MaxRemounts == 2
\* unsubscribe functions the application may hold
MaxHandles == 2

\* the value `undefined`
Undefined == -1

Values == 0..MaxVal

(* --------------------- the component types mounted --------------------- *)

\* the classes of the test suites and of the documentation
BaseTypes ==
  {"Counter", "Names", "Two", "Chain", "Self", "A", "B", "App",
   "Group", "NoRender", "Thrower", "Page"}

\* classes that combine several decorators on one field, or whose handlers,
\* getters, hooks and render entry throw or write
CaseTypes == {"Ordered", "Fragile", "Guarded", "Strict", "StrictLate", "Early", "Wrap",
   "Cyclic", "Multi", "MultiStore", "Clamp", "Dual"}

\* a class that renders two instances of another one, and that one
PairTypes == {"Pair"}
PartTypes == {"Cond"}

Types == BaseTypes \cup CaseTypes \cup PairTypes \cup PartTypes

NoJsx == [k |-> "none", f |-> "", t |-> "", v |-> "", kids |-> <<>>]
TextOf(f) == [NoJsx EXCEPT !.k = "text", !.f = f]
CompOf(T) == [NoJsx EXCEPT !.k = "comp", !.t = T]
ElemOf(kids) == [NoJsx EXCEPT !.k = "elem", !.kids = kids]
\* a render entry that throws instead of returning an element
Throws == [NoJsx EXCEPT !.k = "throw"]
\* if (this.f === MaxVal) throw new Error(), inside a render entry
ThrowIf(f) == [NoJsx EXCEPT !.k = "throwIf", !.f = f]

\* The descriptor the decorators of a class build (ComponentMeta), with the
\* class's own code: field initialisers, getter bodies (the fields read, in
\* order), the event handler's target and the template of the render entry.
NoMeta ==
  [tagName |-> "", renderMethodName |-> "render",
   stateFields |-> <<>>, propertyBindings |-> <<>>, styleBindings |-> <<>>,
   styleLayoutFields |-> <<>>, storeFields |-> <<>>, watchHandlers |-> <<>>,
   computedFields |-> <<>>, eventHandlers |-> <<>>, hooks |-> {},
   errorCapturedMethodName |-> "", getters |-> <<>>, template |-> NoJsx,
   throwers |-> {}, badGetters |-> {}, guardedGetters |-> {}, condGetters |-> {},
   hookWrites |-> <<>>, watchWrites |-> <<>>]

\* a class whose watch handlers named in `throwers`, whose getter cg (when g is
\* MaxVal) and whose render entry (when r is MaxVal) throw; errorCaptured is ""
\* for no hook, "rethrow" for a hook returning false
Faulty(errorCaptured, throwers) ==
  [NoMeta EXCEPT !.tagName = "div", !.stateFields = <<"w", "g", "r">>,
     !.watchHandlers = <<<<"w", <<"onW1", "onW2">>>>, <<"cw", <<"onCw">>>>>>,
     !.computedFields = <<"cw", "cg">>,
     !.getters = <<<<"cw", <<"w">>>>, <<"cg", <<"g">>>>>>,
     !.throwers = throwers, !.badGetters = {"cg"},
     !.hooks = {"mounted", "beforeUpdate", "updated"},
     !.errorCapturedMethodName = errorCaptured,
     !.template = ElemOf(<<TextOf("w"), TextOf("cw"), TextOf("cg"), ThrowIf("r")>>)]

Meta(T) ==
  CASE T = "Counter" ->
         [NoMeta EXCEPT !.tagName = "div", !.stateFields = <<"count">>,
            !.propertyBindings = <<<<"label", "title">>>>,
            !.watchHandlers = <<<<"count", <<"onCountChange">>>>>>,
            !.eventHandlers = <<<<"increment", "click", "count">>>>,
            !.hooks = {"beforeMount", "mounted", "beforeUpdate", "updated",
                       "beforeUnmount", "destroyed"},
            !.template = ElemOf(<<TextOf("count")>>)]
    [] T = "Names" ->
         [NoMeta EXCEPT !.tagName = "div", !.stateFields = <<"firstName", "lastName">>,
            !.computedFields = <<"fullName">>,
            !.getters = <<<<"fullName", <<"firstName", "lastName">>>>>>,
            !.watchHandlers = <<<<"fullName", <<"onFullNameChange">>>>>>,
            !.template = ElemOf(<<TextOf("fullName")>>)]
    [] T = "Two" ->
         [NoMeta EXCEPT !.tagName = "div", !.stateFields = <<"firstName", "lastName">>,
            !.computedFields = <<"fullName", "initials">>,
            !.getters = <<<<"fullName", <<"firstName", "lastName">>>>,
                          <<"initials", <<"firstName", "lastName">>>>>>,
            !.template = ElemOf(<<TextOf("fullName"), TextOf("initials")>>)]
    [] T = "Chain" ->
         [NoMeta EXCEPT !.tagName = "div", !.stateFields = <<"filter">>,
            !.computedFields = <<"filteredItems", "itemCount">>,
            !.getters = <<<<"filteredItems", <<"filter">>>>,
                          <<"itemCount", <<"filteredItems">>>>>>,
            !.watchHandlers = <<<<"itemCount", <<"onItemCount">>>>>>,
            !.template = ElemOf(<<TextOf("itemCount")>>)]
    [] T = "Self" ->
         [NoMeta EXCEPT !.tagName = "div",
            !.computedFields = <<"loop">>,
            !.getters = <<<<"loop", <<"loop">>>>>>,
            !.template = ElemOf(<<TextOf("loop")>>)]
    [] T = "A" ->
         [NoMeta EXCEPT !.tagName = "div", !.stateFields = <<"counter">>,
            !.storeFields = <<<<"counter", "shared">>>>,
            !.watchHandlers = <<<<"counter", <<"onValueChange">>>>>>,
            !.computedFields = <<"derived">>,
            !.getters = <<<<"derived", <<"counter">>>>>>,
            !.eventHandlers = <<<<"increment", "click", "counter">>>>,
            !.hooks = {"mounted"},
            !.template = ElemOf(<<TextOf("counter"), TextOf("derived")>>)]
    [] T = "B" ->
         [NoMeta EXCEPT !.tagName = "div", !.stateFields = <<"counter">>,
            !.storeFields = <<<<"counter", "shared">>>>,
            !.hooks = {"mounted"},
            !.template = ElemOf(<<TextOf("counter")>>)]
    [] T = "App" ->
         [NoMeta EXCEPT !.tagName = "div", !.hooks = {"mounted"},
            !.template = ElemOf(<<CompOf("A"), CompOf("B")>>)]
    [] T = "Group" ->
         [NoMeta EXCEPT !.hooks = {"mounted"}, !.template = ElemOf(<<>>)]
    [] T = "NoRender" ->
         [NoMeta EXCEPT !.tagName = "div", !.renderMethodName = "",
            !.stateFields = <<"counter">>,
            !.storeFields = <<<<"counter", "shared">>>>,
            !.eventHandlers = <<<<"increment", "click", "counter">>>>,
            !.hooks = {"beforeMount", "mounted"}]
    [] T = "Thrower" ->
         [NoMeta EXCEPT !.tagName = "div", !.template = Throws]
    [] T = "Fragile" -> Faulty("", {"onW1", "onCw"})
    [] T = "Guarded" -> Faulty("onError", {"onW1", "onCw"})
    [] T = "Strict" -> Faulty("rethrow", {"onW1", "onCw"})
    [] T = "StrictLate" -> Faulty("rethrow", {"onCw"})
    [] T = "Early" ->
         [NoMeta EXCEPT !.tagName = "div", !.stateFields = <<"n">>,
            !.hooks = {"beforeMount", "mounted", "beforeUpdate", "updated"},
            !.hookWrites = <<<<"beforeMount", <<"n", MaxVal>>>>>>,
            !.template = ElemOf(<<TextOf("n")>>)]
    \* get loop() { if (this.busy) return 0; this.busy = true;
    \*              try { return this.n + 0 * this.loop } finally { this.busy = false } }
    \* @State() flag = 0; @State() a = 0;
    \* @Computed() get pick() { return this.flag ? this.flag : this.a }
    [] T = "Cond" ->
         [NoMeta EXCEPT !.tagName = "span", !.stateFields = <<"flag", "a">>,
            !.computedFields = <<"pick">>,
            !.getters = <<<<"pick", <<"flag", "a">>>>>>,
            !.condGetters = {"pick"},
            !.template = ElemOf(<<TextOf("pick")>>)]
    \* render() { return <div><Cond/><Cond/></div> }
    [] T = "Pair" ->
         [NoMeta EXCEPT !.tagName = "div",
            !.template = ElemOf(<<CompOf("Cond"), CompOf("Cond")>>)]
    \* @State() v = 0;
    \* @Watch('v') reset(n) { if (n === MaxVal) this.v = 0 }
    \* @Watch('v') record(n, o) { calls.push([n, o]) }
    [] T = "Clamp" ->
         [NoMeta EXCEPT !.tagName = "div", !.stateFields = <<"v">>,
            !.watchHandlers = <<<<"v", <<"reset", "record">>>>>>,
            !.watchWrites = <<<<"reset", <<"v", MaxVal, 0>>>>>>,
            !.template = ElemOf(<<TextOf("v")>>)]
    \* @Store('shared') x = 0; @Store('shared') y = 0
    [] T = "Dual" ->
         [NoMeta EXCEPT !.tagName = "div", !.stateFields = <<"x", "y">>,
            !.storeFields = <<<<"x", "shared">>, <<"y", "shared">>>>,
            !.template = ElemOf(<<TextOf("x")>>)]
    [] T = "Cyclic" ->
         [NoMeta EXCEPT !.tagName = "div", !.stateFields = <<"n">>,
            !.computedFields = <<"loop">>,
            !.getters = <<<<"loop", <<"n", "loop">>>>>>,
            !.guardedGetters = {"loop"},
            !.template = ElemOf(<<TextOf("loop")>>)]
    \* @Property('title') @Style('title') @StyleLayout() @State() ps = 0;
    \* @Style('title') @StyleLayout() @State() st = 0
    [] T = "Multi" ->
         [NoMeta EXCEPT !.tagName = "div", !.stateFields = <<"ps", "st">>,
            !.propertyBindings = <<<<"ps", "title">>>>,
            !.styleBindings = <<<<"ps", "title">>, <<"st", "title">>>>,
            !.styleLayoutFields = <<"ps", "st">>,
            !.template = ElemOf(<<TextOf("ps"), TextOf("st")>>)]
    \* @Use('shared') @Property('title') @Style('title') us = 0
    [] T = "MultiStore" ->
         [NoMeta EXCEPT !.tagName = "div", !.stateFields = <<"us">>,
            !.storeFields = <<<<"us", "shared">>>>,
            !.propertyBindings = <<<<"us", "title">>>>,
            !.styleBindings = <<<<"us", "title">>>>,
            !.template = ElemOf(<<TextOf("us")>>)]
    [] T = "Wrap" ->
         [NoMeta EXCEPT !.tagName = "div", !.template = CompOf("Group")]
    [] T = "Ordered" ->
         [NoMeta EXCEPT !.tagName = "div", !.stateFields = <<"size">>,
            !.propertyBindings = <<<<"size", "title">>>>,
            !.watchHandlers = <<<<"size", <<"onSizeA", "onSizeB">>>>,
                                <<"area", <<"onArea">>>>>>,
            !.computedFields = <<"area">>,
            !.getters = <<<<"area", <<"size">>>>>>,
            !.hooks = {"mounted", "beforeUpdate", "updated"},
            !.template = ElemOf(<<TextOf("area")>>)]
    [] OTHER ->
         [NoMeta EXCEPT !.tagName = "div", !.hooks = {"mounted"},
            !.errorCapturedMethodName = "onError",
            !.template = ElemOf(<<CompOf("NoRender"), CompOf("Thrower"), CompOf("Group")>>)]

\* the descriptors of all the classes, by class name
MetaTable == [T \in Types |-> Meta(T)]

StoreKeys == {"shared"}
\* the keys of the cells: the one the classes link, and one only the
\* application refers to
CellKeys == StoreKeys \cup {"spare"}
\* the listeners the application subscribes
Callbacks == {"cb1", "cb2"}
DomNames == {"title"}

(* ------------------------- sequences as JS Sets ------------------------ *)

Range(s) == {s[k] : k \in DOMAIN s}
Has(s, x) == \E k \in DOMAIN s : s[k] = x
\* Set.prototype.add: insertion order, no duplicates
SetAdd(s, x) == IF Has(s, x) THEN s ELSE Append(s, x)
\* Set.prototype.delete while a forEach may be running: the entry is emptied,
\* not shifted, so a running iteration keeps its index
SetDelete(s, x, hole) == [k \in DOMAIN s |-> IF s[k] = x THEN hole ELSE s[k]]
SetSize(s, hole) == Cardinality({k \in DOMAIN s : s[k] # hole})
\* the entries that remain, in order (no iteration is running)
Compact(s, hole) == SelectSeq(s, LAMBDA x : x # hole)
\* the second component of the pair of `pairs` whose first component is key
Lookup(pairs, key, default) ==
  IF \E k \in DOMAIN pairs : pairs[k][1] = key
    THEN pairs[CHOOSE k \in DOMAIN pairs : pairs[k][1] = key][2]
    ELSE default
Keys(pairs) == [k \in DOMAIN pairs |-> pairs[k][1]]

(* ------------------------------- the DOM ------------------------------- *)

\* document.createElement / createTextNode / createDocumentFragment /
\* createComment: a node outside any tree
NewNode(kind) ==
  [kind |-> kind, parent |-> 0, kids |-> <<>>, inst |-> 0, text |-> "",
   props |-> [d \in DomNames |-> Undefined], style |-> [d \in DomNames |-> Undefined],
   listeners |-> <<>>]

\* node.parentNode?.removeChild(node)
RemoveChild(dom, n) ==
  IF dom[n].parent = 0 THEN dom
  ELSE [dom EXCEPT ![dom[n].parent].kids = SelectSeq(@, LAMBDA x : x # n),
                   ![n].parent = 0]

\* parent.appendChild(child): a DocumentFragment hands its children over and
\* is left empty; any other node is moved from where it was
AppendChild(dom, p, c) ==
  IF dom[c].kind = "fragment"
    THEN [k \in DOMAIN dom |->
            IF k = p THEN [dom[k] EXCEPT !.kids = @ \o dom[c].kids]
            ELSE IF k = c THEN [dom[k] EXCEPT !.kids = <<>>]
            ELSE IF Has(dom[c].kids, k) THEN [dom[k] EXCEPT !.parent = p]
            ELSE dom[k]]
    ELSE LET d1 == RemoveChild(dom, c)
         IN [d1 EXCEPT ![p].kids = Append(@, c), ![c].parent = p]

RECURSIVE AppendAll(_, _, _)
AppendAll(dom, p, ns) ==
  IF ns = <<>> THEN dom ELSE AppendAll(AppendChild(dom, p, Head(ns)), p, Tail(ns))

RECURSIVE RemoveAll(_, _)
RemoveAll(dom, ns) ==
  IF ns = <<>> THEN dom ELSE RemoveAll(RemoveChild(dom, Head(ns)), Tail(ns))

\* the live container every mount call renders into
Container == 1

RECURSIVE InDocument(_, _)
InDocument(dom, n) ==
  n = Container \/ (dom[n].parent # 0 /\ InDocument(dom, dom[n].parent))

(* --------------------------- the global store -------------------------- *)

NoCell == [has |-> FALSE, value |-> Undefined, listeners |-> <<>>]
\* a listener closure of the renderer is known by its instance and field
NoListener == <<0, "">>

hasStore(store, id) == store[id].has

ensureEntry(store, id, initialValue) ==
  IF store[id].has THEN store
  ELSE [store EXCEPT ![id] = [has |-> TRUE, value |-> initialValue, listeners |-> <<>>]]

subscribeStore(store, id, listener) ==
  [ensureEntry(store, id, Undefined) EXCEPT ![id].listeners = SetAdd(@, listener)]

\* an unsubscribe function that drops the cell with its last listener
unsubscribeDropping(store, id, listener) ==
  IF SetSize(SetDelete(store[id].listeners, listener, NoListener), NoListener) = 0
    THEN [store EXCEPT ![id] = NoCell]
    ELSE [store EXCEPT ![id].listeners = SetDelete(@, listener, NoListener)]

\* the function subscribeStore returns
unsubscribe(store, id, listener) ==
  [store EXCEPT ![id].listeners = SetDelete(@, listener, NoListener)]

(* ------------------------ the dependency tracker ----------------------- *)

startTracking(stack, instance) == Append(stack, [instance |-> instance, deps |-> <<>>])

\* endTracking pops; these are the set it returns and the stack it leaves
endTrackingDeps(stack) == IF stack = <<>> THEN <<>> ELSE stack[Len(stack)].deps
endTrackingStack(stack) == IF stack = <<>> THEN <<>> ELSE SubSeq(stack, 1, Len(stack) - 1)

recordDependency(stack, instance, field) ==
  IF stack # <<>> /\ stack[Len(stack)].instance = instance
    THEN [stack EXCEPT ![Len(stack)].deps = SetAdd(@, field)]
    ELSE stack

(* ------------------- the reverse index meta.computedDepsMap ------------ *)

NoField == ""
\* a key of the Map with its Set; gen tells Set objects apart within one call
NoDeps == [has |-> FALSE, gen |-> 0, items |-> <<>>]

\* the names a key of the reverse index of a class can be
AllNames(M) ==
  Range(M.stateFields) \cup Range(Keys(M.propertyBindings))
    \cup Range(Keys(M.styleBindings)) \cup Range(M.styleLayoutFields)
    \cup Range(M.computedFields)

\* oldDeps.forEach(dep => { set?.delete(cf); if (set && set.size === 0) map.delete(dep) })
RECURSIVE unlinkDeps(_, _, _)
unlinkDeps(dm, deps, cf) ==
  IF deps = <<>> THEN dm
  ELSE LET d == Head(deps)
           s == SetDelete(dm[d].items, cf, NoField)
       IN unlinkDeps(IF ~dm[d].has THEN dm
                     ELSE IF SetSize(s, NoField) = 0 THEN [dm EXCEPT ![d] = NoDeps]
                     ELSE [dm EXCEPT ![d].items = s],
                     Tail(deps), cf)

\* info.deps.forEach(dep => { set = map.get(dep) || new Set(); set.add(cf) });
\* gen is the identity given to the Sets this call creates
RECURSIVE linkDeps(_, _, _, _)
linkDeps(dm, deps, cf, gen) ==
  IF deps = <<>> THEN dm
  ELSE LET d == Head(deps)
       IN linkDeps(IF dm[d].has THEN [dm EXCEPT ![d].items = SetAdd(@, cf)]
                   ELSE [dm EXCEPT ![d] = [has |-> TRUE, gen |-> gen, items |-> <<cf>>]],
                   Tail(deps), cf, gen)

(* ------------------ the world threaded through the calls --------------- *)

\* W.exc is the exception in flight ("" when none); W.diverged says that the
\* call does not return; W.overflow that a bound of the model was passed.
NoLog ==
  [renders |-> <<>>, updates |-> <<>>, creates |-> <<>>, watch |-> <<>>, evals |-> <<>>, hooks |-> <<>>,
   writes |-> <<>>, reflects |-> <<>>, reported |-> <<>>,
   seq |-> <<>>, listeners |-> <<>>, captured |-> <<>>, steps |-> <<>>, swaps |-> <<>>,
   binds |-> <<>>]

Halted(W) == W.exc # "" \/ W.diverged
Ret(W, v) == [w |-> W, v |-> v]
Max(a, b) == IF a >= b THEN a ELSE b

\* the fields of a class that hold a value of their own
ValueFields(M) ==
  Range(M.stateFields) \cup Range(Keys(M.propertyBindings))
    \cup Range(Keys(M.styleBindings)) \cup Range(M.styleLayoutFields)

\* the value a getter body returns from the values it read, per class
GetterValue(T, c, vs) ==
  CASE c = "fullName" -> 10 + (vs[1] + 1) * (MaxVal + 2) + (vs[2] + 1)
    [] c = "initials" -> 40 + ((vs[1] + 1) \div 2) * (MaxVal + 2) + ((vs[2] + 1) \div 2)
    [] c = "filteredItems" -> 60 + vs[1]
    [] c = "itemCount" -> 100 + vs[1]
    [] c = "derived" -> 80 + vs[1]
    [] c = "pick" -> vs[Len(vs)]
    [] OTHER -> vs[1]

\* Calls that can come back to their caller (a setter that re-renders, a render
\* that creates instances, a getter that reads getters) go through Do, which
\* hands each call to the operator named in it.  W.meta[T] is the descriptor
\* of class T.
RECURSIVE Do(_, _)

\* the catch block without console.error: an exception no hook takes goes on
CaughtUncontained(W, i) ==
  IF W.exc = "" \/ W.diverged THEN W
  ELSE IF W.meta[W.insts[i].type].errorCapturedMethodName = "" THEN W
  ELSE IF W.meta[W.insts[i].type].errorCapturedMethodName = "rethrow"
    THEN [W EXCEPT !.log.captured = Append(@, <<i, W.exc>>)]
  ELSE [W EXCEPT !.exc = "", !.log.captured = Append(@, <<i, W.exc>>)]

\* catch (err) { if (errorCaptured) { if (hook(err) === false) throw err }
\*               else console.error(err) }
Caught(W, i) ==
  IF W.exc = "" \/ W.diverged THEN W
  ELSE IF W.meta[W.insts[i].type].errorCapturedMethodName = "" THEN [W EXCEPT !.exc = ""]
  ELSE IF W.meta[W.insts[i].type].errorCapturedMethodName = "rethrow"
    THEN [W EXCEPT !.log.captured = Append(@, <<i, W.exc>>)]
  ELSE [W EXCEPT !.exc = "", !.log.captured = Append(@, <<i, W.exc>>)]

\* a watch handler that writes: if (n === fv[2]) this[fv[1]] = fv[3]
WatchWrite(W, i, fv, new) ==
  IF fv = <<>> \/ W.exc # "" THEN W
  ELSE IF new # fv[2] THEN W
  ELSE Do(W, <<"SetField", i, fv[1], fv[3]>>)

\* a watch handler of the class: here each one records its arguments
CallWatch(W, i, h, new, old) ==
  IF Halted(W) THEN W
  ELSE Caught(WatchWrite([W EXCEPT !.log.watch = Append(@, <<i, h, new, old>>),
                                   !.log.steps = Append(@, <<i, "watch", h>>),
                                   !.exc = IF h \in W.meta[W.insts[i].type].throwers THEN "Error" ELSE @],
                         i, Lookup(W.meta[W.insts[i].type].watchWrites, h, <<>>), new),
              i)

RECURSIVE WatchLoop(_, _, _, _, _, _)
\* handlers.forEach(handlerName => handler.call(componentObject, new, old));
\* for a computed field cf the first argument is info.cached, read at each call
WatchLoop(W, i, hs, cf, new, old) ==
  IF hs = <<>> \/ Halted(W) THEN W
  ELSE WatchLoop(CallWatch(W, i, Head(hs),
                           IF cf = NoField THEN new ELSE W.insts[i].cinfo[cf].cached, old),
                 i, Tail(hs), cf, new, old)

\* the fields the getter c reads: all it names, or, for `x ? x : y`, only x
\* when x is truthy
FieldsRead(W, i, c) ==
  LET fs == Lookup(W.meta[W.insts[i].type].getters, c, <<>>)
  IN IF c \in W.meta[W.insts[i].type].condGetters /\ W.insts[i].vals[fs[1]] # 0
       THEN <<fs[1]>>
       ELSE fs

RECURSIVE ReadFields(_, _, _, _)
\* this.f read inside user code of instance i, one field after the other
ReadFields(W, i, fs, acc) ==
  IF fs = <<>> \/ Halted(W) THEN Ret(W, acc)
  ELSE LET r == Do(W, <<"GetField", i, Head(fs)>>)
       IN ReadFields(r.w, i, Tail(fs), Append(acc, r.v))

\* the getter returns (or throws) and its frame is popped
GetterReturn(r, T, c, depth) ==
  IF Halted(r.w) THEN Ret([r.w EXCEPT !.depth = depth], Undefined)
  ELSE IF c \in r.w.meta[T].badGetters /\ r.v[1] = MaxVal
    THEN Ret([r.w EXCEPT !.depth = depth, !.exc = "Error"], Undefined)
  ELSE Ret([r.w EXCEPT !.depth = depth], GetterValue(T, c, r.v))

\* finally { this.busy = false } of a getter that guards against re-entry
Unguarded(r, i, c) == Ret([r.w EXCEPT !.busy = @ \ {<<i, c>>}], r.v)

\* one call of the class's own getter (desc.get bound to the component object)
EvalGetter(W, i, c) ==
  LET guarded == c \in W.meta[W.insts[i].type].guardedGetters
      entered == [W EXCEPT !.depth = @ + 1, !.maxDepth = Max(@, W.depth + 1),
                           !.log.evals = Append(@, <<i, c>>),
                           !.log.steps = Append(@, <<i, "eval", c>>)]
      fields == FieldsRead(W, i, c)
  IN CASE Halted(W) -> Ret(W, Undefined)
       [] ~Halted(W) /\ W.depth >= StackLimit -> Ret([W EXCEPT !.exc = "RangeError"], Undefined)
       \* if (this.busy) return 0
       [] ~Halted(W) /\ W.depth < StackLimit /\ <<i, c>> \in W.busy ->
            Ret([entered EXCEPT !.depth = W.depth], 0)
       \* this.busy = true; try { ... } finally { this.busy = false }
       [] ~Halted(W) /\ W.depth < StackLimit /\ <<i, c>> \notin W.busy /\ guarded ->
            Unguarded(GetterReturn(ReadFields([entered EXCEPT !.busy = @ \cup {<<i, c>>}],
                                              i, fields, <<>>),
                                   W.insts[i].type, c, W.depth),
                      i, c)
       [] OTHER -> GetterReturn(ReadFields(entered, i, fields, <<>>),
                                W.insts[i].type, c, W.depth)

\* try { info.cached = compute() } finally { info.deps = endTracking() }
\* the evaluation without the finally: endTracking only when compute returned
EndTrackedOnReturn(r, i, c) ==
  IF r.w.diverged \/ r.w.exc # "" THEN r.w
  ELSE [r.w EXCEPT !.insts[i].cinfo[c].cached = r.v,
                   !.insts[i].cinfo[c].deps = endTrackingDeps(r.w.stack),
                   !.stack = endTrackingStack(@)]

EndTracked(r, i, c) ==
  IF r.w.diverged THEN r.w
  ELSE [r.w EXCEPT !.insts[i].cinfo[c].cached = IF r.w.exc = "" THEN r.v ELSE @,
                   !.insts[i].cinfo[c].deps = endTrackingDeps(r.w.stack),
                   !.stack = endTrackingStack(@)]

\* startTracking(instance), then the guarded evaluation
TrackedCompute(W, i, c) ==
  EndTracked(Do([W EXCEPT !.stack = startTracking(@, i)], <<"EvalGetter", i, c>>), i, c)

\* remove the stale edges of cf from the reverse index, add the current ones
Relink(W, i, cf, oldDeps) ==
  [W EXCEPT !.depsMap[W.insts[i].type] =
               linkDeps(unlinkDeps(@, oldDeps, cf), W.insts[i].cinfo[cf].deps, cf, W.nextGen),
            !.nextGen = @ + 1]

\* recordDependency(instance, c); return info.cached
CachedValue(W, i, c) ==
  Ret([W EXCEPT !.stack = recordDependency(@, i, c)], W.insts[i].cinfo[c].cached)

\* the dirty branch of the accessor, after the evaluation
Recomputed(W, i, c, oldDeps) ==
  IF Halted(W) THEN Ret(W, Undefined)
  ELSE CachedValue([Relink(W, i, c, oldDeps) EXCEPT !.insts[i].cinfo[c].dirty = FALSE], i, c)

\* the accessor installed for a computed field
ComputedGet(W, i, c) ==
  IF ~W.insts[i].cinfo[c].dirty THEN CachedValue(W, i, c)
  ELSE Recomputed(TrackedCompute(W, i, c), i, c, W.insts[i].cinfo[c].deps)

\* the accessor of a store-linked field: get() { return getStoreValue(storeId) }
StoreGet(W, storeId) ==
  LET st == ensureEntry(W.store, storeId, Undefined)
  IN Ret([W EXCEPT !.store = st], st[storeId].value)

\* the accessor of a bound field: recordDependency(instance, f); return currentValue
PlainGet(W, i, f) ==
  Ret([W EXCEPT !.stack = recordDependency(@, i, f)], W.insts[i].vals[f])

\* componentObject[f]
GetField(W, i, f) ==
  IF Halted(W) THEN Ret(W, Undefined)
  ELSE IF Has(W.meta[W.insts[i].type].computedFields, f)
    THEN IF W.insts[i].cinfo[f].defined THEN ComputedGet(W, i, f)
         ELSE Do(W, <<"EvalGetter", i, f>>)
  ELSE IF W.insts[i].bound[f] = "store"
    THEN StoreGet(W, Lookup(W.meta[W.insts[i].type].storeFields, f, ""))
  ELSE IF W.insts[i].bound[f] # "" THEN PlainGet(W, i, f)
  ELSE Ret(W, W.insts[i].vals[f])

\* if (prev !== info.cached) the watch handlers of cf get (info.cached, prev)
ComputedWatch(W, i, cf, prev) ==
  IF prev # W.insts[i].cinfo[cf].cached
    THEN WatchLoop(W, i, Lookup(W.meta[W.insts[i].type].watchHandlers, cf, <<>>),
                   cf, W.insts[i].cinfo[cf].cached, prev)
    ELSE W

\* the body of cFields.forEach(cf => ...) after the evaluation
Recomputation(W, i, cf, oldDeps, prev) ==
  IF Halted(W) THEN W ELSE ComputedWatch(Relink(W, i, cf, oldDeps), i, cf, prev)

\* the body of cFields.forEach(cf => ...) in the setter
RecomputeDependent(W, i, cf) ==
  IF Halted(W) \/ ~W.insts[i].cinfo[cf].defined THEN W
  ELSE Recomputation(TrackedCompute([W EXCEPT !.insts[i].cinfo[cf].dirty = TRUE], i, cf),
                     i, cf, W.insts[i].cinfo[cf].deps, W.insts[i].cinfo[cf].cached)

RECURSIVE ForEachCField(_, _, _, _, _, _)
\* cFields.forEach over the Set object (identity gen) found under field f: an
\* entry deleted and added again during the callback is appended and visited
\* again; n counts the callbacks run
ForEachCField(W, i, f, gen, idx, n) ==
  LET e == W.depsMap[W.insts[i].type][f]
  IN IF Halted(W) THEN W
     ELSE IF ~e.has \/ e.gen # gen \/ idx > Len(e.items) THEN W
     ELSE IF e.items[idx] = NoField THEN ForEachCField(W, i, f, gen, idx + 1, n)
     ELSE IF n >= MaxIter THEN [W EXCEPT !.diverged = TRUE]
     ELSE ForEachCField(RecomputeDependent(W, i, e.items[idx]), i, f, gen, idx + 1, n + 1)

\* the DOM reflection of the setter, by the kind the field was bound as
ReflectToDom(W, i, f, v) ==
  LET inst == W.insts[i]
      M == W.meta[inst.type]
      kind == inst.bound[f]
  IN IF W.dom[inst.host].kind # "element" THEN W
     ELSE IF kind = "property"
       THEN [W EXCEPT !.dom[inst.host].props[Lookup(M.propertyBindings, f, "")] = v,
                      !.log.reflects = Append(@, <<i, f, v, kind>>),
                      !.log.steps = Append(@, <<i, "reflect", f>>)]
     ELSE IF kind = "style"
       THEN [W EXCEPT !.dom[inst.host].style[Lookup(M.styleBindings, f, "")] = v,
                      !.log.reflects = Append(@, <<i, f, v, kind>>),
                      !.log.steps = Append(@, <<i, "reflect", f>>)]
     ELSE W

\* if (meta.stateFields.has(f) && instance.isMounted) instance.update()
UpdateIfState(W, i, f) ==
  IF ~Halted(W) /\ Has(W.meta[W.insts[i].type].stateFields, f) /\ W.insts[i].isMounted
    THEN Do(W, <<"update", i>>)
    ELSE W

\* const cFields = meta.computedDepsMap.get(f); if (cFields) cFields.forEach(...)
RecomputeDependents(W, i, f) ==
  IF ~Halted(W) /\ W.depsMap[W.insts[i].type][f].has
    THEN ForEachCField(W, i, f, W.depsMap[W.insts[i].type][f].gen, 1, 0)
    ELSE W

\* the setter with the update pass moved before the watch handlers
SetterBodyUpdateFirst(W, i, f, v, old) ==
  RecomputeDependents(
    WatchLoop(UpdateIfState(ReflectToDom([W EXCEPT !.insts[i].vals[f] = v,
                                                   !.log.writes = Append(@, <<i, f, v, old>>)],
                                         i, f, v),
                            i, f),
              i, Lookup(W.meta[W.insts[i].type].watchHandlers, f, <<>>), NoField, v, old),
    i, f)

\* the setter past its guard: store, reflect, watch, recompute, update
SetterBody(W, i, f, v, old) ==
  UpdateIfState(
    RecomputeDependents(
      WatchLoop(ReflectToDom([W EXCEPT !.insts[i].vals[f] = v,
                                       !.log.writes = Append(@, <<i, f, v, old>>)],
                             i, f, v),
                i, Lookup(W.meta[W.insts[i].type].watchHandlers, f, <<>>), NoField, v, old),
      i, f),
    i, f)

\* the setter without its guard `if (currentValue !== newValue)`
PlainSetUnguarded(W, i, f, v) == SetterBody(W, i, f, v, W.insts[i].vals[f])

\* set(newValue) of a field bound by setupFieldProperty (not store-linked)
PlainSet(W, i, f, v) ==
  IF W.insts[i].vals[f] = v THEN W ELSE SetterBody(W, i, f, v, W.insts[i].vals[f])

\* the listener a store-linked field subscribes:
\* () => { if (instance.isMounted) instance.update() }
StoreListener(W, l) ==
  IF l[1] # 0 /\ W.insts[l[1]].isMounted
    THEN Do([W EXCEPT !.log.listeners = Append(@, l)], <<"update", l[1]>>)
    ELSE [W EXCEPT !.log.listeners = Append(@, l)]

RECURSIVE ForEachListener(_, _, _)
\* entry.listeners.forEach(fn => fn()): listeners added meanwhile are visited
ForEachListener(W, id, idx) ==
  LET ls == W.store[id].listeners
  IN IF Halted(W) \/ idx > Len(ls) THEN W
     ELSE IF ls[idx] = NoListener THEN ForEachListener(W, id, idx + 1)
     ELSE ForEachListener(StoreListener(W, ls[idx]), id, idx + 1)

\* setStoreValue that creates the entry but never overwrites its value
setStoreValueKept(W, id, value) ==
  IF Halted(W) THEN W ELSE [W EXCEPT !.store = ensureEntry(@, id, value)]

\* setStoreValue without the test `entry.value !== value`
setStoreValueAlways(W, id, value) ==
  IF Halted(W) THEN W
  ELSE ForEachListener([W EXCEPT !.store = [ensureEntry(@, id, value) EXCEPT ![id].value = value]],
                       id, 1)

setStoreValue(W, id, value) ==
  LET st == ensureEntry(W.store, id, value)
  IN IF Halted(W) THEN W
     ELSE IF st[id].value # value
       THEN ForEachListener([W EXCEPT !.store = [st EXCEPT ![id].value = value]], id, 1)
       ELSE [W EXCEPT !.store = st]

\* componentObject[f] = v
SetField(W, i, f, v) ==
  IF Halted(W) THEN W
  ELSE IF W.insts[i].bound[f] = "store"
    THEN Do(W, <<"setStoreValue", Lookup(W.meta[W.insts[i].type].storeFields, f, ""), v>>)
  ELSE IF W.insts[i].bound[f] # "" THEN PlainSet(W, i, f, v)
  ELSE [W EXCEPT !.insts[i].vals[f] = v]

CreateNode(W, node) ==
  [W EXCEPT !.dom = Append(@, node), !.overflow = @ \/ Len(W.dom) >= MaxNodes]

\* createTextElement(text): null for undefined, else a text element holding
\* String(text)
createTextElement(f, text) ==
  IF text = Undefined THEN NoJsx ELSE [TextOf(f) EXCEPT !.v = ToString(text)]

RECURSIVE EvalTplSeq(_, _, _, _)
EvalTplSeq(W, i, ts, acc) ==
  IF ts = <<>> \/ Halted(W) THEN Ret(W, acc)
  ELSE LET r == Do(W, <<"EvalTpl", i, Head(ts)>>)
       IN EvalTplSeq(r.w, i, Tail(ts),
                     IF r.v.k = "none" THEN acc ELSE Append(acc, r.v))

\* the render entry of the class builds its element tree from the fields it
\* reads; createElement filters the children that are null
EvalTpl(W, i, tpl) ==
  IF Halted(W) THEN Ret(W, NoJsx)
  ELSE IF tpl.k = "text"
    THEN LET r == Do(W, <<"GetField", i, tpl.f>>) IN Ret(r.w, createTextElement(tpl.f, r.v))
  ELSE IF tpl.k \in {"elem", "frag"}
    THEN LET r == EvalTplSeq(W, i, tpl.kids, <<>>) IN Ret(r.w, [tpl EXCEPT !.kids = r.v])
  ELSE IF tpl.k = "throw" THEN Ret([W EXCEPT !.exc = "Error"], NoJsx)
  ELSE IF tpl.k = "throwIf"
    THEN LET r == Do(W, <<"GetField", i, tpl.f>>)
         IN Ret([r.w EXCEPT !.exc = IF r.v = MaxVal /\ ~Halted(r.w) THEN "Error" ELSE @], NoJsx)
  ELSE Ret(W, tpl)

\* the instance is in the document: its host element, or for a fragment host
\* (which hands its children over and stays outside) the nodes it rendered
Attached(W, i) ==
  IF W.dom[W.insts[i].host].kind = "fragment"
    THEN \A k \in DOMAIN W.insts[i].nodes : InDocument(W.dom, W.insts[i].nodes[k])
    ELSE InDocument(W.dom, W.insts[i].host)

RenderEntry(W, i) ==
  Do([W EXCEPT !.log.renders = Append(@, i),
               !.log.seq = Append(@, <<i, "render", Attached(W, i)>>),
               !.log.steps = Append(@, <<i, "render", "">>)],
     <<"EvalTpl", i, W.meta[W.insts[i].type].template>>)

\* this.<field> = <value> in the body of a hook that writes a field
HookWrite(W, i, fv) ==
  IF fv = <<>> THEN W ELSE Do(W, <<"SetField", i, fv[1], fv[2]>>)

\* a lifecycle hook of the class: each one pushes its name to the `calls` of
\* its component object
HookBody(W, i, m) ==
  Ret(HookWrite([W EXCEPT !.log.hooks = Append(@, <<i, m>>),
                          !.log.seq = Append(@, <<i, m, Attached(W, i)>>),
                          !.insts[i].calls = Append(@, m),
                          !.overflow = @ \/ Len(W.insts[i].calls) >= MaxHooks],
                i, Lookup(W.meta[W.insts[i].type].hookWrites, m, <<>>)),
      NoJsx)

\* what the catch block of callWithErrorHandling sees: the method threw
Thrown(W, i, m) ==
  IF W.exc # "" /\ ~W.diverged THEN [W EXCEPT !.log.steps = Append(@, <<i, "threw", m>>)] ELSE W

\* callWithErrorHandling without its try / catch
callWithErrorHandlingUncaught(W, i, m) ==
  IF Halted(W) THEN Ret(W, NoJsx)
  ELSE LET r == IF m = "render" THEN RenderEntry(W, i) ELSE HookBody(W, i, m)
       IN Ret(r.w, IF r.w.exc = "" THEN r.v ELSE NoJsx)

callWithErrorHandling(W, i, m) ==
  IF Halted(W) THEN Ret(W, NoJsx)
  ELSE LET r == IF m = "render" THEN RenderEntry(W, i) ELSE HookBody(W, i, m)
       IN Ret(Caught(Thrown(r.w, i, m), i), IF r.w.exc = "" THEN r.v ELSE NoJsx)

\* if (meta.<hook>MethodName) callWithErrorHandling(instance, meta.<hook>MethodName)
CallHook(W, i, m) ==
  IF ~Halted(W) /\ m \in W.meta[W.insts[i].type].hooks
    THEN Do(W, <<"callWithErrorHandling", i, m>>).w
    ELSE W

RECURSIVE RenderKids(_, _, _)
RenderKids(W, kids, acc) ==
  IF kids = <<>> \/ Halted(W) THEN Ret(W, acc)
  ELSE LET r == Do(W, <<"renderEchelonElementToNodes", Head(kids)>>)
       IN RenderKids(r.w, Tail(kids), acc \o r.v)

\* the node just created, as the list of nodes rendered
LastNode(W) == Ret(W, <<Len(W.dom)>>)

\* a component element: the host of the instance created, or a comment
ComponentNodes(r) ==
  IF Halted(r.w) THEN Ret(r.w, <<>>)
  ELSE IF r.v # 0 THEN Ret(r.w, <<r.w.insts[r.v].host>>)
  ELSE LastNode(CreateNode(r.w, NewNode("comment")))

\* an intrinsic element n with its rendered children appended
ElementNodes(r, n) ==
  IF Halted(r.w) THEN Ret(r.w, <<>>)
  ELSE Ret([r.w EXCEPT !.dom = AppendAll(@, n, r.v)], <<n>>)

renderEchelonElementToNodes(W, el) ==
  IF Halted(W) \/ el.k = "none" THEN Ret(W, <<>>)
  ELSE IF el.k = "comp" THEN ComponentNodes(Do(W, <<"createComponentInstance", el.t>>))
  ELSE IF el.k = "frag" THEN RenderKids(W, el.kids, <<>>)
  ELSE IF el.k = "text" THEN LastNode(CreateNode(W, [NewNode("text") EXCEPT !.text = el.v]))
  ELSE ElementNodes(RenderKids(CreateNode(W, NewNode("element")), el.kids, <<>>),
                    Len(W.dom) + 1)

\* new ComponentClass() with the record createComponentInstance builds
NewInstance(M, T, host) ==
  [type |-> T, host |-> host, nodes |-> <<>>, isMounted |-> FALSE, calls |-> <<>>,
   vals |-> [f \in ValueFields(M) |-> 0],
   bound |-> [f \in ValueFields(M) |-> ""],
   cinfo |-> [c \in Range(M.computedFields) |->
                [deps |-> <<>>, cached |-> Undefined, dirty |-> TRUE, defined |-> FALSE]],
   eventListeners |-> <<>>, storeListeners |-> <<>>]

\* the value a field bound as kind shows on the host element at binding time
InitialReflect(W, i, f, kind) ==
  LET inst == W.insts[i]
      M == W.meta[inst.type]
      v == inst.vals[f]
  IN IF W.dom[inst.host].kind # "element" \/ v = Undefined THEN W
     ELSE IF kind = "property"
       THEN [W EXCEPT !.dom[inst.host].props[Lookup(M.propertyBindings, f, "")] = v]
     ELSE IF kind = "style"
       THEN [W EXCEPT !.dom[inst.host].style[Lookup(M.styleBindings, f, "")] = v]
     ELSE W

\* const unsubscribe = subscribeStore(storeId, listener); storeListeners.push(...)
Subscribed(W, i, f, storeId) ==
  [W EXCEPT !.store = subscribeStore(@, storeId, <<i, f>>),
            !.insts[i].storeListeners = Append(@, <<storeId, <<i, f>>>>)]

\* the seeding without the test of `existed`
SeededAlways(W, i, f, storeId, existed) ==
  IF W.insts[i].vals[f] # Undefined
    THEN Do(W, <<"setStoreValue", storeId, W.insts[i].vals[f]>>)
    ELSE W

\* if (initial !== undefined && !hasStore(storeId)) setStoreValue(storeId, initial)
Seeded(W, i, f, storeId, existed) ==
  IF W.insts[i].vals[f] # Undefined /\ ~existed
    THEN Do(W, <<"setStoreValue", storeId, W.insts[i].vals[f]>>)
    ELSE W

\* processedFields.add(f), with the kind of accessor installed
MarkBound(W, i, f, kind) ==
  IF Halted(W) THEN W
  ELSE [W EXCEPT !.insts[i].bound[f] = kind, !.log.binds = Append(@, <<i, f, kind>>)]

\* setupFieldProperty without the test of processedFields
setupFieldPropertyAgain(W, i, f, kind) ==
  LET storeId == Lookup(W.meta[W.insts[i].type].storeFields, f, "")
  IN IF Halted(W) THEN W
     ELSE IF storeId # ""
       THEN MarkBound(Seeded(Subscribed(W, i, f, storeId), i, f, storeId,
                             hasStore(W.store, storeId)),
                      i, f, "store")
     ELSE MarkBound(InitialReflect(W, i, f, kind), i, f, kind)

setupFieldProperty(W, i, f, kind) ==
  LET storeId == Lookup(W.meta[W.insts[i].type].storeFields, f, "")
  IN IF Halted(W) \/ W.insts[i].bound[f] # "" THEN W
     ELSE IF storeId # ""
       THEN MarkBound(Seeded(Subscribed(W, i, f, storeId), i, f, storeId,
                             hasStore(W.store, storeId)),
                      i, f, "store")
     ELSE MarkBound(InitialReflect(W, i, f, kind), i, f, kind)

RECURSIVE SetupFields(_, _, _, _)
SetupFields(W, i, fs, kind) ==
  IF fs = <<>> \/ Halted(W) THEN W
  ELSE SetupFields(setupFieldProperty(W, i, Head(fs), kind), i, Tail(fs), kind)

\* the edges of the first evaluation and the accessor of computed field c
Installed(W, i, c) ==
  IF Halted(W) THEN W
  ELSE [Relink(W, i, c, <<>>) EXCEPT !.insts[i].cinfo[c].dirty = FALSE,
                                     !.insts[i].cinfo[c].defined = TRUE]

RECURSIVE InitComputed(_, _, _)
\* meta.computedFields.forEach(field => ...): the first evaluation, the edges
\* into the reverse index and the accessor
InitComputed(W, i, cs) ==
  IF cs = <<>> \/ Halted(W) THEN W
  ELSE InitComputed(Installed(TrackedCompute(W, i, Head(cs)), i, Head(cs)), i, Tail(cs))

RECURSIVE BindEvents(_, _, _)
\* meta.eventHandlers.forEach: host.addEventListener and the record kept for destroy
BindEvents(W, i, hs) ==
  LET host == W.insts[i].host
      l == <<Head(hs)[2], i, Head(hs)[1]>>
  IN IF hs = <<>> \/ Halted(W) THEN W
     ELSE IF W.dom[host].kind # "element" THEN BindEvents(W, i, Tail(hs))
     ELSE BindEvents([W EXCEPT !.dom[host].listeners = Append(@, l),
                               !.insts[i].eventListeners = Append(@, l)],
                     i, Tail(hs))

initializeComponentBindingsAndState(W, i) ==
  LET M == W.meta[W.insts[i].type]
  IN BindEvents(
       InitComputed(
         SetupFields(
           SetupFields(
             SetupFields(
               SetupFields(W, i, Keys(M.propertyBindings), "property"),
               i, Keys(M.styleBindings), "style"),
             i, M.styleLayoutFields, "style-layout"),
           i, M.stateFields, "state"),
         i, M.computedFields),
       i, M.eventHandlers)

\* new ComponentClass(), the host node and the instance record
Construct(W, T, i) ==
  [W EXCEPT !.insts = Append(@, NewInstance(W.meta[T], T, Len(W.dom))),
            !.dom[Len(W.dom)].inst = i,
            !.overflow = @ \/ Len(W.insts) >= MaxInsts,
            !.log.creates = Append(@, i)]

\* the first update of the instance: the nodes rendered go under the host
Attach(rn, i) ==
  IF Halted(rn.w) THEN Ret(rn.w, 0)
  ELSE Ret([rn.w EXCEPT !.dom = AppendAll(@, rn.w.insts[i].host, rn.v),
                        !.insts[i].nodes = @ \o rn.v], i)

\* renderEchelonElementToNodes(newJsxElement), of what the render entry returned
RenderResult(r) == Do(r.w, <<"renderEchelonElementToNodes", r.v>>)

\* the creation without the test of the render entry
createComponentInstanceUnguarded(W, T) ==
  IF Halted(W) THEN Ret(W, 0)
  ELSE Attach(
         RenderResult(
           Do(CallHook(
                initializeComponentBindingsAndState(
                  Construct(CreateNode(W, NewNode(IF W.meta[T].tagName # "" THEN "element"
                                                  ELSE "fragment")),
                            T, Len(W.insts) + 1),
                  Len(W.insts) + 1),
                Len(W.insts) + 1, "beforeMount"),
              <<"callWithErrorHandling", Len(W.insts) + 1, "render">>)),
         Len(W.insts) + 1)

createComponentInstance(W, T) ==
  IF Halted(W) \/ W.meta[T].renderMethodName = "" THEN Ret(W, 0)
  ELSE Attach(
         RenderResult(
           Do(CallHook(
                initializeComponentBindingsAndState(
                  Construct(CreateNode(W, NewNode(IF W.meta[T].tagName # "" THEN "element"
                                                  ELSE "fragment")),
                            T, Len(W.insts) + 1),
                  Len(W.insts) + 1),
                Len(W.insts) + 1, "beforeMount"),
              <<"callWithErrorHandling", Len(W.insts) + 1, "render">>)),
         Len(W.insts) + 1)

\* what an update pass of instance i did to the nodes: how many of the nodes
\* it removed still have a parent, how many children the host kept after the
\* removal, how many removed nodes the walker returned again, and whether the
\* instance lists exactly the nodes the walker returned
Swapped(W, i, new) ==
  LET e == W.pending[Len(W.pending)]
  IN [W EXCEPT !.pending = SubSeq(@, 1, Len(@) - 1),
               !.log.swaps =
                 Append(@, [inst |-> i,
                            attached |-> Cardinality({k \in DOMAIN e.old :
                                                       W.dom[e.old[k]].parent # 0}),
                            stale |-> e.stale,
                            reused |-> Cardinality(Range(e.old) \cap Range(new)),
                            listed |-> W.insts[i].nodes = new])]

\* the new nodes go under the host; then the updated hook
Replaced(rn, i) ==
  IF Halted(rn.w) THEN rn.w
  ELSE CallHook(Swapped([rn.w EXCEPT !.dom = AppendAll(@, rn.w.insts[i].host, rn.v),
                                     !.insts[i].nodes = @ \o rn.v],
                        i, rn.v),
                i, "updated")

\* the old nodes are removed, the element the render entry returned is rendered
Rerendered(r, i) ==
  IF Halted(r.w) THEN r.w
  ELSE Replaced(Do([r.w EXCEPT !.dom = RemoveAll(@, r.w.insts[i].nodes),
                               !.insts[i].nodes = <<>>,
                               !.pending =
                                 Append(@, [old |-> r.w.insts[i].nodes,
                                            stale |-> Len(RemoveAll(r.w.dom, r.w.insts[i].nodes)
                                                            [r.w.insts[i].host].kids)])],
                   <<"renderEchelonElementToNodes", r.v>>),
                i)

\* update without the test of isMounted
updateUnguarded(W, i) ==
  IF Halted(W) THEN W
  ELSE Rerendered(Do(CallHook([W EXCEPT !.log.updates = Append(@, i),
                                        !.log.steps = Append(@, <<i, "update", "">>)],
                              i, "beforeUpdate"),
                     <<"callWithErrorHandling", i, "render">>),
                  i)

\* internalInstance.update
update(W, i) ==
  IF Halted(W) \/ ~W.insts[i].isMounted THEN W
  ELSE Rerendered(Do(CallHook([W EXCEPT !.log.updates = Append(@, i),
                                        !.log.steps = Append(@, <<i, "update", "">>)],
                              i, "beforeUpdate"),
                     <<"callWithErrorHandling", i, "render">>),
                  i)

\* internalInstance._eventListeners.forEach(removeEventListener); = []
Unlisten(W, i) ==
  IF Halted(W) THEN W
  ELSE [W EXCEPT !.dom[W.insts[i].host].listeners =
                    SelectSeq(@, LAMBDA l : ~Has(W.insts[i].eventListeners, l)),
                 !.insts[i].eventListeners = <<>>]

RECURSIVE UnsubscribeAll(_, _, _)
\* internalInstance._storeListeners.forEach(({ listener }) => listener()); = []
UnsubscribeAll(W, i, ls) ==
  IF Halted(W) THEN W
  ELSE IF ls = <<>> THEN [W EXCEPT !.insts[i].storeListeners = <<>>]
  ELSE UnsubscribeAll([W EXCEPT !.store = unsubscribe(@, Head(ls)[1], Head(ls)[2])],
                      i, Tail(ls))

\* the rendered nodes are removed, then the host if it is an attached element
Detached(W, i) ==
  IF Halted(W) THEN W
  ELSE [W EXCEPT !.dom = IF W.dom[W.insts[i].host].kind # "fragment"
                           THEN RemoveChild(RemoveAll(@, W.insts[i].nodes), W.insts[i].host)
                           ELSE RemoveAll(@, W.insts[i].nodes),
                 !.insts[i].nodes = <<>>,
                 !.insts[i].isMounted = FALSE]

\* destroy that leaves the event listeners and the store subscriptions in place
destroyKeepingListeners(W, i) ==
  Detached(CallHook(CallHook(W, i, "beforeUnmount"), i, "destroyed"), i)

\* internalInstance.destroy
destroy(W, i) ==
  Detached(
    CallHook(
      UnsubscribeAll(Unlisten(CallHook(W, i, "beforeUnmount"), i), i,
                     W.insts[i].storeListeners),
      i, "destroyed"),
    i)

RECURSIVE MountKids(_, _, _)
MountKids(W, n, idx) ==
  IF Halted(W) \/ idx > Len(W.dom[n].kids) THEN W
  ELSE MountKids(Do(W, <<"callMountedRecursively", W.dom[n].kids[idx]>>), n, idx + 1)

\* the walk that flags the instance of a node without testing isMounted, before
\* and after it has walked the node's children
callMountedUnguarded(W, n) ==
  LET i == W.dom[n].inst
      Wk == MountKids(CallHook([W EXCEPT !.insts[i].isMounted = TRUE,
                                         !.log.seq = Append(@, <<i, "flag", Attached(W, i)>>)],
                               i, "mounted"), n, 1)
  IN IF Halted(W) THEN W
     ELSE IF i = 0 THEN MountKids(W, n, 1)
     ELSE IF Halted(Wk) THEN Wk
     ELSE CallHook([Wk EXCEPT !.insts[i].isMounted = TRUE,
                              !.log.seq = Append(@, <<i, "flag", Attached(Wk, i)>>)],
                   i, "mounted")

\* the walk that visits the children of a node before it flags the node's instance
callMountedChildrenFirst(W, n) ==
  LET i == W.dom[n].inst
      Wk == MountKids(W, n, 1)
  IN IF Halted(W) THEN W
     ELSE IF i # 0 /\ ~W.insts[i].isMounted /\ ~Halted(Wk)
       THEN CallHook([Wk EXCEPT !.insts[i].isMounted = TRUE,
                                !.log.seq = Append(@, <<i, "flag", Attached(Wk, i)>>)],
                     i, "mounted")
       ELSE Wk

callMountedRecursively(W, n) ==
  LET i == W.dom[n].inst
  IN IF Halted(W) THEN W
     ELSE IF i # 0 /\ ~W.insts[i].isMounted
       THEN MountKids(CallHook([W EXCEPT !.insts[i].isMounted = TRUE,
                                         !.log.seq = Append(@, <<i, "flag", Attached(W, i)>>),
                                         !.log.steps = Append(@, <<i, "flag", "">>)],
                               i, "mounted"), n, 1)
       ELSE MountKids(W, n, 1)

RECURSIVE MountEach(_, _)
MountEach(W, ns) ==
  IF ns = <<>> \/ Halted(W) THEN W
  ELSE MountEach(Do(W, <<"callMountedRecursively", Head(ns)>>), Tail(ns))

\* containerDomElement.appendChild(node) for each node, then the mounted hooks
Mounted(r) ==
  IF Halted(r.w) THEN r.w
  ELSE MountEach([r.w EXCEPT !.dom = AppendAll(@, Container, r.v)], r.v)

\* mount(rootJsxElement, containerDomElement)
mount(W, el) ==
  Mounted(Do([W EXCEPT !.dom = [RemoveAll(@, W.dom[Container].kids)
                                  EXCEPT ![Container].kids = <<>>]],
             <<"renderEchelonElementToNodes", el>>))

\* an exception of a listener is reported by the event loop, not thrown on
Reported(W) ==
  IF W.exc # "" /\ ~W.diverged
    THEN [W EXCEPT !.exc = "", !.log.reported = Append(@, W.exc)]
    ELSE W

\* this.<target>++ : the value read, then the value written
Increment(r, i, target) == Do(r.w, <<"SetField", i, target, r.v + 1>>)

\* an @Event handler of the class: this.<target>++
EventHandler(W, i, method) ==
  LET target == (CHOOSE h \in Range(W.meta[W.insts[i].type].eventHandlers) : h[1] = method)[3]
  IN Reported(Increment(Do(W, <<"GetField", i, target>>), i, target))

RECURSIVE dispatchEvent(_, _, _, _)
\* node.dispatchEvent(new MouseEvent(event)): the listeners registered on the
\* target, in order
dispatchEvent(W, n, event, ls) ==
  IF ls = <<>> \/ W.diverged THEN W
  ELSE IF Head(ls)[1] = event /\ Has(W.dom[n].listeners, Head(ls))
    THEN dispatchEvent(EventHandler(W, Head(ls)[2], Head(ls)[3]), n, event, Tail(ls))
    ELSE dispatchEvent(W, n, event, Tail(ls))

Do(W, c) ==
  CASE c[1] = "GetField" -> GetField(W, c[2], c[3])
    [] c[1] = "SetField" -> SetField(W, c[2], c[3], c[4])
    [] c[1] = "update" -> update(W, c[2])
    [] c[1] = "createComponentInstance" -> createComponentInstance(W, c[2])
    [] c[1] = "renderEchelonElementToNodes" -> renderEchelonElementToNodes(W, c[2])
    [] c[1] = "callWithErrorHandling" -> callWithErrorHandling(W, c[2], c[3])
    [] c[1] = "setStoreValue" -> setStoreValue(W, c[2], c[3])
    [] c[1] = "callMountedRecursively" -> callMountedRecursively(W, c[2])
    [] c[1] = "EvalGetter" -> EvalGetter(W, c[2], c[3])
    [] c[1] = "EvalTpl" -> EvalTpl(W, c[2], c[3])
    [] c[1] = "mount" -> mount(W, c[2])
    [] c[1] = "dispatchEvent" -> dispatchEvent(W, c[2], c[3], c[4])
    [] c[1] = "destroy" -> destroy(W, c[2])

(* ----------------------- the module computed-fixed.ts ------------------ *)

MAX_COMPUTATION_DEPTH == 10

\* the objects that own fields, and the other one of the two
TrackerOwners == {1, 2}
Other(i) == 3 - i

\* the fields a compute function reads
PlainFields == {"a", "b"}

\* computed fields each of which reads the next one
Chain == <<"k1", "k2", "k3", "k4", "k5", "k6", "k7", "k8", "k9", "k10", "k11">>

\* the computed fields the application reads itself
EntryFields == {"sum", "outer", "other", "self", "boom", "k1"}

ComputedNames == EntryFields \cup Range(Chain)

\* the compute functions, as the calls they make in order
\*   sum:   () => this.a + this.b
\*   outer: () => this.a + this.sum
\*   other: () => that.a
\*   self:  () => this.self
\*   boom:  () => { this.a; throw new Error() }
\*   kn:    () => this.k(n+1), the last one () => this.a
ComputeFn(f) ==
  CASE f = "sum" -> << <<"read", "this", "a">>, <<"read", "this", "b">> >>
    [] f = "outer" -> << <<"read", "this", "a">>, <<"compute", "sum">> >>
    [] f = "other" -> << <<"read", "that", "a">> >>
    [] f = "self" -> << <<"compute", "self">> >>
    [] f = "boom" -> << <<"read", "this", "a">>, <<"throw">> >>
    [] f = Chain[Len(Chain)] -> << <<"read", "this", "a">> >>
    [] OTHER -> << <<"compute", Chain[(CHOOSE n \in DOMAIN Chain : Chain[n] = f) + 1]>> >>

\* the fields a compute function reads of its own object, in order
ReadsOf(f) ==
  LET steps == ComputeFn(f)
      own == SelectSeq(steps, LAMBDA s : s[1] = "read" /\ s[2] = "this")
  IN [k \in DOMAIN own |-> own[k][3]]

\* what the compute function of a field returns
ResultOf(f) == IF f \in {"sum", "k1"} THEN 1 ELSE 0

\* interface ComputedInfo, as its caller creates it
NoInfo == [deps |-> <<>>, cached |-> Undefined, dirty |-> TRUE, computing |-> FALSE]

\* the module when it is loaded; evaluated and exc speak of the last call:
\* the compute functions it ran and the exception it left
NoFixed ==
  [contextStack |-> <<>>,
   computationDepth |-> [i \in TrackerOwners |-> 0],
   infos |-> [i \in TrackerOwners |-> [f \in ComputedNames |-> NoInfo]],
   open |-> <<>>, evaluated |-> <<>>, exc |-> ""]

startTrackingFixed(F, instance) ==
  [F EXCEPT !.contextStack = Append(@, [instance |-> instance, deps |-> <<>>,
                                        computingFields |-> {}])]

endTrackingFixed(F) ==
  IF F.contextStack = <<>>
    THEN Ret(F, <<>>)
    ELSE Ret([F EXCEPT !.contextStack = SubSeq(@, 1, Len(@) - 1)],
             F.contextStack[Len(F.contextStack)].deps)

\* ctx && ctx.instance === instance
TopIs(F, instance) ==
  F.contextStack # <<>> /\ F.contextStack[Len(F.contextStack)].instance = instance

recordDependencyUnowned(F, instance, field) ==
  IF F.contextStack # <<>> /\ field \notin F.contextStack[Len(F.contextStack)].computingFields
    THEN [F EXCEPT !.contextStack[Len(F.contextStack)].deps = SetAdd(@, field)]
    ELSE F

recordDependencyFixed(F, instance, field) ==
  IF TopIs(F, instance) /\ field \notin F.contextStack[Len(F.contextStack)].computingFields
    THEN [F EXCEPT !.contextStack[Len(F.contextStack)].deps = SetAdd(@, field)]
    ELSE F

startComputing(F, instance, field) ==
  IF /\ TopIs(F, instance)
     /\ field \notin F.contextStack[Len(F.contextStack)].computingFields
     /\ F.computationDepth[instance] < MAX_COMPUTATION_DEPTH
    THEN Ret([F EXCEPT !.contextStack[Len(F.contextStack)].computingFields = @ \cup {field},
                       !.computationDepth[instance] = @ + 1], TRUE)
    ELSE Ret(F, FALSE)

endComputingKeeping(F, instance, field) ==
  IF TopIs(F, instance)
    THEN [F EXCEPT !.contextStack[Len(F.contextStack)].computingFields = @ \ {field}]
    ELSE F

endComputing(F, instance, field) ==
  IF TopIs(F, instance)
    THEN [F EXCEPT !.contextStack[Len(F.contextStack)].computingFields = @ \ {field},
                   !.computationDepth[instance] = Max(0, @ - 1)]
    ELSE F

\* the inner finally: info.deps = endTracking(); endComputing(instance, field);
\* then the outer one: info.computing = false
Finally(F, i, f, v) ==
  LET e == endTrackingFixed(F)
  IN Ret([endComputing([e.w EXCEPT !.infos[i][f].deps = e.v], i, f)
            EXCEPT !.infos[i][f].computing = FALSE], v)

\* return newValue, unless computeFn threw
Returning(F, i, f) ==
  IF F.exc # "" THEN Finally(F, i, f, Undefined) ELSE Finally(F, i, f, ResultOf(f))

RECURSIVE safelyComputeValue(_, _, _)
RECURSIVE Call(_, _, _)

\* one call of a compute function
Step(F, i, step) ==
  CASE step[1] = "read" ->
         recordDependencyFixed(F, IF step[2] = "this" THEN i ELSE Other(i), step[3])
    [] step[1] = "compute" -> safelyComputeValue(F, i, step[2]).w
    [] OTHER -> [F EXCEPT !.exc = "Error"]

\* computeFn(): the calls of the function in order, up to the one that throws
Call(F, i, steps) ==
  IF Len(steps) = 1 THEN Step(F, i, steps[1])
  ELSE IF F.exc # "" THEN F
  ELSE Call(Step(F, i, steps[1]), i, Tail(steps))

safelyComputeValue(F, i, f) ==
  LET flagged == [F EXCEPT !.infos[i][f].computing = TRUE]
      s == startComputing(flagged, i, f)
  IN CASE F.infos[i][f].computing -> Ret(F, F.infos[i][f].cached)
       [] ~F.infos[i][f].computing /\ ~s.v -> Ret(F, F.infos[i][f].cached)
       [] OTHER ->
            Returning(Call([startTrackingFixed(s.w, i) EXCEPT !.evaluated = Append(@, <<i, f>>)],
                           i, ComputeFn(f)), i, f)

(* ------------------------------ the state ------------------------------ *)

VARIABLES
  store,         \* const stores = new Map<string, StoreEntry>()
  insts,         \* the instances created so far, by id
  dom,           \* the DOM nodes, by id; node 1 is the container
  depsMap,       \* meta.computedDepsMap of each class
  contextStack,  \* the tracker's stack of open contexts
  mounts,        \* calls of mount so far
  handles,       \* the unsubscribe functions the application holds
  fixed,         \* the module computed-fixed.ts and the ComputedInfo objects of its callers
  last           \* the last operation: what was called and what it did

vars == <<store, insts, dom, depsMap, contextStack, mounts, handles, fixed, last>>

World ==
  [store |-> store, insts |-> insts, dom |-> dom, depsMap |-> depsMap,
   stack |-> contextStack, log |-> NoLog, exc |-> "", diverged |-> FALSE,
   overflow |-> FALSE, depth |-> 0, maxDepth |-> 0, nextGen |-> 1, busy |-> {}, pending |-> <<>>,
   meta |-> MetaTable]

\* nodes no live object refers to are collected by the engine; the ids of the
\* remaining ones are kept dense
RECURSIVE Top(_, _)
Top(d, n) == IF d[n].parent = 0 THEN n ELSE Top(d, d[n].parent)

Roots(W) ==
  {Container} \cup {W.insts[i].host : i \in DOMAIN W.insts}
    \cup UNION {Range(W.insts[i].nodes) : i \in DOMAIN W.insts}

Live(W) ==
  LET tops == {Top(W.dom, r) : r \in Roots(W)}
  IN {n \in DOMAIN W.dom : Top(W.dom, n) \in tops}

Collect(W) ==
  LET live == Live(W)
      Renum(n) == IF n = 0 THEN 0 ELSE Cardinality({m \in live : m <= n})
      old == [k \in 1..Cardinality(live) |-> CHOOSE n \in live : Renum(n) = k]
  IN [W EXCEPT
        !.dom = [k \in DOMAIN old |->
                   [W.dom[old[k]] EXCEPT
                      !.parent = Renum(W.dom[old[k]].parent),
                      !.kids = [j \in DOMAIN W.dom[old[k]].kids |->
                                  Renum(W.dom[old[k]].kids[j])]]],
        !.insts = [i \in DOMAIN W.insts |->
                     [W.insts[i] EXCEPT
                        !.host = Renum(W.insts[i].host),
                        !.nodes = [j \in DOMAIN W.insts[i].nodes |->
                                     Renum(W.insts[i].nodes[j])]]]]

\* no forEach is running between two operations: the holes of the Sets go
Settle(W) ==
  [Collect(W) EXCEPT
     !.store = [k \in CellKeys |->
                  [W.store[k] EXCEPT !.listeners = Compact(@, NoListener)]],
     !.depsMap = [T \in Types |-> [f \in AllNames(W.meta[T]) |->
                    [W.depsMap[T][f] EXCEPT !.gen = 0, !.items = Compact(@, NoField)]]]]

NoOp ==
  [op |-> "init", type |-> "", inst |-> 0, field |-> "", value |-> Undefined,
   old |-> Undefined, wasMounted |-> FALSE, pre |-> <<>>, cells |-> <<>>, exc |-> "",
   found |-> FALSE, handle |-> 0, deps |-> <<>>,
   diverged |-> FALSE, log |-> NoLog, maxDepth |-> 0]

\* the state the operation leaves, and the record of what it did
Settled(S) ==
  /\ store' = S.store
  /\ insts' = S.insts
  /\ dom' = S.dom
  /\ depsMap' = S.depsMap
  /\ contextStack' = S.stack

Commit(W, op) ==
  /\ ~W.overflow
  /\ UNCHANGED fixed
  /\ Settled(Settle(W))
  /\ last' = [op EXCEPT !.exc = W.exc, !.diverged = W.diverged, !.log = W.log,
                        !.maxDepth = W.maxDepth,
                        !.cells = store]

Init ==
  /\ store = [k \in CellKeys |-> NoCell]
  /\ insts = <<>>
  /\ dom = <<NewNode("element")>>
  /\ depsMap = [T \in Types |-> [f \in AllNames(MetaTable[T]) |-> NoDeps]]
  /\ contextStack = <<>>
  /\ mounts = 0
  /\ handles = <<>>
  /\ fixed = NoFixed
  /\ last = NoOp

\* a call that never returns leaves nothing to run after it
Running == ~last.diverged

\* the value a bound field holds: the store entry's value for a store-linked
\* field, currentValue for any other
Held(i, f) ==
  IF insts[i].bound[f] = "store"
    THEN store[Lookup(MetaTable[insts[i].type].storeFields, f, "")].value
    ELSE insts[i].vals[f]

\* the field the handler `method` of instance i increments
TargetOf(i, method) ==
  (CHOOSE h \in Range(MetaTable[insts[i].type].eventHandlers) : h[1] = method)[3]

\* mount(createElement(T, null), container)
Mount(T) ==
  /\ Running
  /\ mounts < MaxMounts
  /\ mounts' = mounts + 1
  /\ UNCHANGED handles
  /\ Commit(Do(World, <<"mount", CompOf(T)>>), [NoOp EXCEPT !.op = "mount", !.type = T])

\* componentObject[f] = v, from outside any handler
Write(i, f, v) ==
  /\ Running
  /\ insts[i].bound[f] # ""
  /\ UNCHANGED <<mounts, handles>>
  /\ Commit(Do(World, <<"SetField", i, f, v>>),
            [NoOp EXCEPT !.op = "write", !.type = insts[i].type, !.inst = i, !.field = f,
                         !.value = v, !.old = Held(i, f),
                         !.pre = [c \in DOMAIN insts[i].cinfo |-> insts[i].cinfo[c].cached],
                         !.wasMounted = insts[i].isMounted])

\* a read leaves the state its accessor leaves and the value it returned
CommitRead(r, op) == Commit(r.w, [op EXCEPT !.value = r.v])

\* componentObject[c] read from outside any handler
Read(i, c) ==
  /\ Running
  /\ insts[i].cinfo[c].defined
  /\ UNCHANGED <<mounts, handles>>
  /\ CommitRead(Do(World, <<"GetField", i, c>>),
                [NoOp EXCEPT !.op = "read", !.type = insts[i].type, !.inst = i,
                             !.field = c, !.wasMounted = insts[i].isMounted])

\* host.dispatchEvent(new MouseEvent('click'))
Click(i) ==
  /\ Running
  /\ MetaTable[insts[i].type].eventHandlers # <<>>
  /\ \A l \in Range(dom[insts[i].host].listeners) :
       Held(l[2], TargetOf(l[2], l[3])) < MaxVal
  /\ UNCHANGED <<mounts, handles>>
  /\ Commit(Do(World, <<"dispatchEvent", insts[i].host, "click", dom[insts[i].host].listeners>>),
            [NoOp EXCEPT !.op = "click", !.type = insts[i].type, !.inst = i,
                         !.wasMounted = insts[i].isMounted])

\* host.__echelon_internal_instance__.update()
Update(i) ==
  /\ Running
  /\ UNCHANGED <<mounts, handles>>
  /\ Commit(Do(World, <<"update", i>>),
            [NoOp EXCEPT !.op = "update", !.type = insts[i].type, !.inst = i,
                         !.wasMounted = insts[i].isMounted])

\* host.__echelon_internal_instance__.destroy()
Destroy(i) ==
  /\ Running
  /\ UNCHANGED <<mounts, handles>>
  /\ Commit(Do(World, <<"destroy", i>>),
            [NoOp EXCEPT !.op = "destroy", !.type = insts[i].type, !.inst = i,
                         !.wasMounted = insts[i].isMounted])

\* setStoreValue(k, v), called by the application
StoreSet(k, v) ==
  /\ Running
  /\ UNCHANGED <<mounts, handles>>
  /\ Commit(Do(World, <<"setStoreValue", k, v>>),
            [NoOp EXCEPT !.op = "set", !.field = k, !.value = v, !.old = store[k].value])

\* getStoreValue(k), called by the application
StoreRead(k) ==
  /\ Running
  /\ UNCHANGED <<mounts, handles>>
  /\ CommitRead(StoreGet(World, k), [NoOp EXCEPT !.op = "get", !.field = k])

Next ==
  \/ \E T \in BaseTypes : Mount(T)
  \/ \E i \in DOMAIN insts : \E f \in ValueFields(MetaTable[insts[i].type]) : \E v \in Values : Write(i, f, v)
  \/ \E i \in DOMAIN insts : \E c \in Range(MetaTable[insts[i].type].computedFields) : Read(i, c)
  \/ \E i \in DOMAIN insts : Click(i)
  \/ \E i \in DOMAIN insts : Update(i)
  \/ \E i \in DOMAIN insts : Destroy(i)
  \/ \E k \in StoreKeys : \E v \in Values : StoreSet(k, v)
  \/ \E k \in StoreKeys : StoreRead(k)

Spec == Init /\ [][Next]_vars

\* the classes mounted in the runs that mount more than once
RemountTypes == {"Counter", "App"}

\* mount(createElement(T, null), container), possibly into a container that
\* holds the nodes of an earlier mount
Remount(T) ==
  /\ Running
  /\ mounts < MaxRemounts
  /\ mounts' = mounts + 1
  /\ UNCHANGED handles
  /\ Commit(Do(World, <<"mount", CompOf(T)>>), [NoOp EXCEPT !.op = "mount", !.type = T])

NextRemount ==
  \/ \E T \in RemountTypes : Remount(T)
  \/ \E i \in DOMAIN insts : \E f \in ValueFields(MetaTable[insts[i].type]) : \E v \in Values : Write(i, f, v)
  \/ \E i \in DOMAIN insts : Update(i)
  \/ \E i \in DOMAIN insts : Destroy(i)

SpecRemount == Init /\ [][NextRemount]_vars

\* the runs over the classes of CaseTypes
NextCases ==
  \/ \E T \in CaseTypes : Mount(T)
  \/ \E i \in DOMAIN insts : \E f \in ValueFields(MetaTable[insts[i].type]) : \E v \in Values : Write(i, f, v)
  \/ \E i \in DOMAIN insts : Update(i)
  \/ \E i \in DOMAIN insts : Destroy(i)

SpecCases == Init /\ [][NextCases]_vars

\* the runs over two instances of one class: reads and writes of their fields
NextPair ==
  \/ \E T \in PairTypes : Mount(T)
  \/ \E i \in DOMAIN insts : \E f \in ValueFields(MetaTable[insts[i].type]) : \E v \in Values : Write(i, f, v)
  \/ \E i \in DOMAIN insts : \E c \in Range(MetaTable[insts[i].type].computedFields) : Read(i, c)

SpecPair == Init /\ [][NextPair]_vars

\* hasStore(k), called by the application
StoreHas(k) ==
  /\ Running
  /\ UNCHANGED <<mounts, handles>>
  /\ Commit(World, [NoOp EXCEPT !.op = "has", !.field = k, !.found = hasStore(store, k)])

\* handles.push(subscribeStore(k, cb)), called by the application
Subscribe(k, cb) ==
  /\ Running
  /\ Len(handles) < MaxHandles
  /\ handles' = Append(handles, [key |-> k, cb |-> cb, called |-> FALSE])
  /\ UNCHANGED mounts
  /\ Commit([World EXCEPT !.store = subscribeStore(@, k, <<0, cb>>)],
            [NoOp EXCEPT !.op = "subscribe", !.field = k, !.handle = Len(handles) + 1])

\* handles[h](), called by the application
Unsubscribe(h) ==
  /\ Running
  /\ handles' = [handles EXCEPT ![h].called = TRUE]
  /\ UNCHANGED mounts
  /\ Commit([World EXCEPT !.store = unsubscribe(@, handles[h].key, <<0, handles[h].cb>>)],
            [NoOp EXCEPT !.op = "unsubscribe", !.field = handles[h].key, !.handle = h])

\* the classes mounted in the runs over the store's interface
StoreTypes == {"B"}

\* the runs in which the application uses the store itself
NextStore ==
  \/ \E T \in StoreTypes : Mount(T)
  \/ \E i \in DOMAIN insts : Destroy(i)
  \/ \E k \in CellKeys : StoreHas(k)
  \/ \E k \in CellKeys : \E v \in Values : StoreSet(k, v)
  \/ \E k \in CellKeys : StoreRead(k)
  \/ \E k \in CellKeys : \E cb \in Callbacks : Subscribe(k, cb)
  \/ \E h \in DOMAIN handles : Unsubscribe(h)

SpecStore == Init /\ [][NextStore]_vars

\* the open calls the application may hold at once
MaxOpen == 2
MaxContexts == 2

\* the field the application brackets with startComputing itself
BracketFields == {"sum"}

\* the module before a call: nothing evaluated, nothing thrown
BeforeCall == [fixed EXCEPT !.evaluated = <<>>, !.exc = ""]

\* what a call into computed-fixed.ts leaves; the two trackers share nothing,
\* and the application is taken to use one while the other is idle
Tracked(F, op) ==
  /\ contextStack = <<>>
  /\ fixed' = F
  /\ last' = [op EXCEPT !.exc = F.exc]
  /\ UNCHANGED <<store, insts, dom, depsMap, contextStack, mounts, handles>>

\* startTracking(i); the application ends what it started in reverse order
StartTracking(i) ==
  /\ Len(fixed.open) < MaxOpen
  /\ Tracked([startTrackingFixed(BeforeCall, i) EXCEPT !.open = Append(@, <<"tracking", i, "">>)],
             [NoOp EXCEPT !.op = "startTracking", !.inst = i])

\* endTracking(), also when nothing is open
EndTracking ==
  /\ IF fixed.open = <<>> THEN TRUE ELSE fixed.open[Len(fixed.open)][1] = "tracking"
  /\ LET r == endTrackingFixed(BeforeCall)
     IN Tracked([r.w EXCEPT !.open = endTrackingStack(@)],
                [NoOp EXCEPT !.op = "endTracking", !.deps = r.v])

\* recordDependency(i, f), as the accessor of a field calls it
RecordDependency(i, f) ==
  Tracked(recordDependencyFixed(BeforeCall, i, f),
          [NoOp EXCEPT !.op = "recordDependency", !.inst = i, !.field = f])

\* if (startComputing(i, f)) the application is to call endComputing(i, f)
StartComputing(i, f) ==
  /\ startComputing(BeforeCall, i, f).v => Len(fixed.open) < MaxOpen
  /\ LET r == startComputing(BeforeCall, i, f)
     IN Tracked([r.w EXCEPT !.open = IF r.v THEN Append(@, <<"computing", i, f>>) ELSE @],
                [NoOp EXCEPT !.op = "startComputing", !.inst = i, !.field = f, !.found = r.v])

\* the matching endComputing(i, f)
EndComputing ==
  /\ fixed.open # <<>>
  /\ fixed.open[Len(fixed.open)][1] = "computing"
  /\ LET b == fixed.open[Len(fixed.open)]
     IN Tracked([endComputing(BeforeCall, b[2], b[3]) EXCEPT !.open = endTrackingStack(@)],
                [NoOp EXCEPT !.op = "endComputing", !.inst = b[2], !.field = b[3]])

\* safelyComputeValue(i, f, compute, info), the whole call
SafelyComputeValue(i, f) ==
  LET r == safelyComputeValue(BeforeCall, i, f)
  IN Tracked(r.w, [NoOp EXCEPT !.op = "safelyComputeValue", !.inst = i, !.field = f,
                               !.value = r.v])

\* what a call into the tracker of Comp1.tsx leaves
TrackedComp1(stack, op) ==
  /\ fixed.contextStack = <<>>
  /\ contextStack' = stack
  /\ last' = op
  /\ UNCHANGED <<store, insts, dom, depsMap, mounts, handles, fixed>>

Comp1StartTracking(i) ==
  /\ Len(contextStack) < MaxContexts
  /\ TrackedComp1(startTracking(contextStack, i),
                  [NoOp EXCEPT !.op = "Comp1.startTracking", !.inst = i])

Comp1EndTracking ==
  TrackedComp1(endTrackingStack(contextStack),
               [NoOp EXCEPT !.op = "Comp1.endTracking", !.deps = endTrackingDeps(contextStack)])

Comp1RecordDependency(i, f) ==
  TrackedComp1(recordDependency(contextStack, i, f),
               [NoOp EXCEPT !.op = "Comp1.recordDependency", !.inst = i, !.field = f])

\* the runs in which the application uses the trackers themselves
NextTracker ==
  \/ \E i \in TrackerOwners : StartTracking(i)
  \/ EndTracking
  \/ \E i \in TrackerOwners : \E f \in {"a"} \cup BracketFields : RecordDependency(i, f)
  \/ \E i \in TrackerOwners : \E f \in BracketFields : StartComputing(i, f)
  \/ EndComputing
  \/ \E i \in TrackerOwners : \E f \in EntryFields : SafelyComputeValue(i, f)
  \/ \E i \in TrackerOwners : Comp1StartTracking(i)
  \/ Comp1EndTracking
  \/ \E i \in TrackerOwners : \E f \in PlainFields : Comp1RecordDependency(i, f)

SpecTracker == Init /\ [][NextTracker]_vars

(* ------------------------- what the claims speak of -------------------- *)

\* the value componentObject[f] reads as, the state left as it is
Peek(i, f) == Do(World, <<"GetField", i, f>>).v

Count(s, x) == Cardinality({k \in DOMAIN s : s[k] = x})

StoreIdOf(T, f) == Lookup(MetaTable[T].storeFields, f, "")
IsStoreLinked(T, f) == StoreIdOf(T, f) # ""
IsPlainState(T, f) == Has(MetaTable[T].stateFields, f) /\ ~IsStoreLinked(T, f)

\* the computed fields of T whose getter reads f
Dependents(T, f) ==
  {c \in Range(MetaTable[T].computedFields) : Has(Lookup(MetaTable[T].getters, c, <<>>), f)}

\* the fields the render entry of T shows, in order
TplFields(T) == [k \in DOMAIN MetaTable[T].template.kids |-> MetaTable[T].template.kids[k].f]

\* the texts instance i shows: those of the text nodes under its rendered root
Shown(i) ==
  IF insts[i].nodes = <<>> THEN <<>>
  ELSE [k \in DOMAIN dom[insts[i].nodes[1]].kids |->
          dom[dom[insts[i].nodes[1]].kids[k]].text]

\* the value of field f of instance i on the current state: a getter evaluated
\* anew, any other field as it reads
RECURSIVE Fresh(_, _)
Fresh(i, f) ==
  LET T == insts[i].type
      g == Lookup(MetaTable[T].getters, f, <<>>)
  IN IF Has(MetaTable[T].computedFields, f)
       THEN GetterValue(T, f, [k \in DOMAIN g |-> Fresh(i, g[k])])
       ELSE Peek(i, f)

ShowsFresh(i) ==
  Shown(i) = [k \in DOMAIN TplFields(insts[i].type) |->
                ToString(Fresh(i, TplFields(insts[i].type)[k]))]

\* the instances other than i that have a field linked to store key id
LinkedTo(id) ==
  {j \in DOMAIN insts : \E g \in DOMAIN insts[j].bound :
     insts[j].bound[g] = "store" /\ StoreIdOf(insts[j].type, g) = id}

Returned == last.exc = "" /\ ~last.diverged
ChangingWrite == last.op = "write" /\ last.value # last.old

\* C1: on a mounted instance every value-changing write to a plain state field
\* returns after exactly one update pass with exactly one call of the render
\* entry, and the nodes then show the value written.
C1_EachWriteRendersOnce ==
  (ChangingWrite /\ last.wasMounted /\ IsPlainState(last.type, last.field))
    => /\ Returned
       /\ Count(last.log.updates, last.inst) = 1
       /\ Count(last.log.renders, last.inst) = 1
       /\ \A k \in DOMAIN TplFields(last.type) :
            TplFields(last.type)[k] = last.field
              => k \in DOMAIN Shown(last.inst) /\ Shown(last.inst)[k] = ToString(last.value)

\* C2: a write of the value a state or DOM-facing field already holds changes
\* nothing: no handler runs, nothing is recomputed or marked dirty, nothing is
\* reflected to the DOM and no update pass runs.
C2_SameValueWriteIsNoOp ==
  [][(last'.op = "write" /\ last'.value = last'.old)
       => /\ UNCHANGED <<store, insts, dom, depsMap, contextStack>>
          /\ last'.log = NoLog
          /\ last'.exc = "" /\ ~last'.diverged]_vars

C2_Witness ==
  /\ last.op = "write" /\ last.value = last.old /\ last.wasMounted
  /\ last.value = MaxVal
  /\ Lookup(MetaTable[last.type].watchHandlers, last.field, <<>>) # <<>>
  /\ \E i \in DOMAIN insts : \E f \in DOMAIN insts[i].bound : insts[i].bound[f] = "property"

\* C3: a value-changing write to a state field that returns has evaluated the
\* getter of every computed field reading it exactly once, and has called that
\* field's watch handlers once with (new cached, previous cached) if the cached
\* value changed and not at all if it did not.
C3_GetterOncePerWrite ==
  (ChangingWrite /\ Returned /\ IsPlainState(last.type, last.field))
    => \A c \in Dependents(last.type, last.field) :
         /\ Count(last.log.evals, <<last.inst, c>>) = 1
         /\ \A h \in Range(Lookup(MetaTable[last.type].watchHandlers, c, <<>>)) :
              LET now == insts[last.inst].cinfo[c].cached
                  calls == {k \in DOMAIN last.log.watch :
                              last.log.watch[k][1] = last.inst /\ last.log.watch[k][2] = h}
              IN IF now # last.pre[c]
                   THEN /\ Cardinality(calls) = 1
                        /\ \A k \in calls : last.log.watch[k] = <<last.inst, h, now, last.pre[c]>>
                   ELSE calls = {}

\* C4: a write to a state field that two or more computed fields read returns,
\* with each of them evaluated and its cached value current.
C4_WriteTerminates ==
  (ChangingWrite /\ Cardinality(Dependents(last.type, last.field)) >= 2)
    => /\ ~last.diverged
       /\ \A c \in Dependents(last.type, last.field) :
            insts[last.inst].cinfo[c].cached = Fresh(last.inst, c)

\* C5: where a computed field reads another computed field, a value-changing
\* write that returns leaves every computed field's cached value equal to its
\* getter on the current state, and a mounted instance shows it.
C5_ChainIsFresh ==
  (ChangingWrite /\ Returned /\ IsPlainState(last.type, last.field)
     /\ \E c \in Range(MetaTable[last.type].computedFields) : Dependents(last.type, c) # {})
    => /\ \A c \in Range(MetaTable[last.type].computedFields) :
            insts[last.inst].cinfo[c].cached = Fresh(last.inst, c)
       /\ last.wasMounted => ShowsFresh(last.inst)

\* C6: creating an instance whose computed field reads itself returns normally:
\* no exception escapes and the nesting of getter calls stays below the stack limit.
C6_SelfReferenceContained ==
  (last.op = "mount" /\ \E c \in Range(MetaTable[last.type].computedFields) : c \in Dependents(last.type, c))
    => last.exc = "" /\ ~last.diverged /\ last.maxDepth < StackLimit

\* C7: all fields linked to one store key read the same value, and after a
\* write through any of them they all read the value written.
C7_LinkedFieldsAgree ==
  /\ \A i \in DOMAIN insts : \A j \in DOMAIN insts :
       \A f \in DOMAIN insts[i].bound : \A g \in DOMAIN insts[j].bound :
         (insts[i].bound[f] = "store" /\ insts[j].bound[g] = "store"
            /\ StoreIdOf(insts[i].type, f) = StoreIdOf(insts[j].type, g))
           => Peek(i, f) = Peek(j, g)
  /\ (last.op = "write" /\ IsStoreLinked(last.type, last.field))
       => /\ Returned
          /\ \A j \in LinkedTo(StoreIdOf(last.type, last.field)) :
               \A g \in DOMAIN insts[j].bound :
                 StoreIdOf(insts[j].type, g) = StoreIdOf(last.type, last.field)
                   => Peek(j, g) = last.value

C7_Witness ==
  /\ ChangingWrite /\ IsStoreLinked(last.type, last.field)
  /\ \E j \in LinkedTo(StoreIdOf(last.type, last.field)) :
       /\ j # last.inst
       /\ insts[j].type # last.type
       /\ Peek(j, "counter") = last.value

\* C8: after a value-changing write to a store-linked field of an attached
\* instance returns, every other instance attached in the document with a field
\* linked to that key has been re-rendered and shows the value written.
C8_OthersRerendered ==
  (ChangingWrite /\ Returned /\ IsStoreLinked(last.type, last.field)
     /\ InDocument(dom, insts[last.inst].host))
    => \A j \in LinkedTo(StoreIdOf(last.type, last.field)) \ {last.inst} :
         InDocument(dom, insts[j].host)
           => /\ Count(last.log.renders, j) >= 1
              /\ \A k \in DOMAIN TplFields(insts[j].type) :
                   IsStoreLinked(insts[j].type, TplFields(insts[j].type)[k])
                     => k \in DOMAIN Shown(j) /\ Shown(j)[k] = ToString(last.value)

\* C9: a value-changing write to a store-linked field calls each watch handler
\* of that field once, with (new value, old value).
C9_StoreFieldWatch ==
  (ChangingWrite /\ Returned /\ IsStoreLinked(last.type, last.field))
    => \A h \in Range(Lookup(MetaTable[last.type].watchHandlers, last.field, <<>>)) :
         Count(last.log.watch, <<last.inst, h, last.value, last.old>>) = 1

\* C10: after a value-changing write to a store-linked field returns, every
\* computed field whose getter reads a field linked to that key reads as its
\* getter on the new value, and a mounted instance shows it.
C10_ComputedOverStoreIsFresh ==
  (ChangingWrite /\ Returned /\ IsStoreLinked(last.type, last.field))
    => \A j \in LinkedTo(StoreIdOf(last.type, last.field)) :
         \A g \in DOMAIN insts[j].bound : \A c \in Dependents(insts[j].type, g) :
           StoreIdOf(insts[j].type, g) = StoreIdOf(last.type, last.field)
             => /\ Peek(j, c) = Fresh(j, c)
                /\ (insts[j].isMounted /\ j = last.inst) => ShowsFresh(j)

\* instance i as destroy leaves it: not mounted, no listener record, none of
\* its handlers on its host, none of its listeners in the store
Inert(I, D, S, i) ==
  /\ ~I[i].isMounted
  /\ I[i].eventListeners = <<>> /\ I[i].storeListeners = <<>>
  /\ \A l \in Range(D[I[i].host].listeners) : l[2] # i
  /\ \A k \in StoreKeys : \A l \in Range(S[k].listeners) : l[1] # i

\* the operation logged in L ran no code of instance i
Quiet(L, i) ==
  /\ \A e \in Range(L.writes) \cup Range(L.watch) \cup Range(L.hooks) \cup Range(L.evals)
            \cup Range(L.listeners) \cup Range(L.reflects) : e[1] # i
  /\ \A j \in Range(L.renders) \cup Range(L.updates) : j # i

\* C11: destroy() leaves the instance inert, and an inert instance stays so:
\* an event dispatched at its host, a write to a store key or a write through
\* another instance runs none of its handlers, does not update or re-render it
\* and changes none of its fields.
C11_DestroyedIsInert ==
  [][/\ (last'.op = "destroy" /\ last'.exc = "" /\ ~last'.diverged)
          => Inert(insts', dom', store', last'.inst)
     /\ \A i \in DOMAIN insts :
          Inert(insts, dom, store, i)
            => /\ Inert(insts', dom', store', i)
               /\ (last'.op \in {"click", "set"} \/ (last'.op = "write" /\ last'.inst # i))
                    => /\ Quiet(last'.log, i)
                       /\ insts'[i].vals = insts[i].vals
                       /\ insts'[i].cinfo = insts[i].cinfo]_vars

\* a store key is written while an instance linked to it has been destroyed
\* and another one is still notified
C11_Witness ==
  /\ last.op = "set" /\ last.value # last.old /\ last.log.listeners # <<>>
  /\ \E i \in DOMAIN insts :
       /\ insts[i].type = "A" /\ ~insts[i].isMounted
       /\ "mounted" \in Range(insts[i].calls)
       /\ Inert(insts, dom, store, i)

\* the stage of its life an instance is in after hook m, from stage s:
\* 0 created, 1 before-mount done, 2 mounted, 3 in an update, 4 unmounting,
\* 5 destroyed, 6 out of order
LifeStep(s, m) ==
  CASE m = "beforeMount" /\ s = 0 -> 1
    [] m = "mounted" /\ s \in {0, 1} -> 2
    [] m = "beforeUpdate" /\ s = 2 -> 3
    [] m = "updated" /\ s = 3 -> 2
    [] m = "beforeUnmount" /\ s \in {0, 1, 2} -> 4
    [] m = "destroyed" /\ s = 4 -> 5
    [] OTHER -> 6

RECURSIVE LifeStage(_, _)
LifeStage(calls, s) ==
  IF calls = <<>> THEN s ELSE LifeStage(Tail(calls), LifeStep(s, Head(calls)))

\* the positions of the log entries of instance i and kind m
Positions(seq, i, m) == {k \in DOMAIN seq : seq[k][1] = i /\ seq[k][2] = m}

\* C12: the hooks of every instance have run in the order before-mount,
\* mounted, pairs of before-update and updated, before-unmount, destroyed, with
\* nothing after destroyed; before-mount ran before the first render and mounted
\* ran with the host attached to the container.
C12_LifecycleOrder ==
  /\ \A i \in DOMAIN insts : LifeStage(insts[i].calls, 0) # 6
  /\ \A i \in Range(last.log.creates) :
       "beforeMount" \in MetaTable[insts[i].type].hooks
         => \A r \in Positions(last.log.seq, i, "render") :
              \E b \in Positions(last.log.seq, i, "beforeMount") : b < r
  /\ \A k \in DOMAIN last.log.seq :
       last.log.seq[k][2] = "mounted" => last.log.seq[k][3]

\* the nodes under the nodes ns, in document order
RECURSIVE DocOrder(_, _)
DocOrder(D, ns) ==
  IF ns = <<>> THEN <<>>
  ELSE <<Head(ns)>> \o DocOrder(D, D[Head(ns)].kids) \o DocOrder(D, Tail(ns))

\* the place of node n in document order (0 when it is not in the document)
DocIndex(n) ==
  LET order == DocOrder(dom, <<Container>>)
  IN IF Has(order, n) THEN CHOOSE k \in DOMAIN order : order[k] = n ELSE 0

\* the instances whose mounted flag the last operation set
Flagged == {i \in DOMAIN insts : Positions(last.log.seq, i, "flag") # {}}

\* C13: during a mount, instances are flagged mounted in the document order of
\* their hosts, so an ancestor before its descendants and a sibling subtree
\* before the next one, and the mounted hook of an instance runs right after its
\* flag is set, before any instance after it is flagged.
C13_MountOrder ==
  last.op = "mount"
    => /\ \A a \in Flagged : \A b \in Flagged :
            (DocIndex(insts[a].host) # 0 /\ DocIndex(insts[a].host) < DocIndex(insts[b].host))
              => \A x \in Positions(last.log.seq, a, "flag") :
                   \A y \in Positions(last.log.seq, b, "flag") : x < y
       /\ \A a \in Flagged :
            "mounted" \in MetaTable[insts[a].type].hooks
              => \A x \in Positions(last.log.seq, a, "flag") :
                   x + 1 \in Positions(last.log.seq, a, "mounted")

\* a mount that flagged a parent and two children, side by side under it
C13_Witness ==
  /\ last.op = "mount" /\ Cardinality(Flagged) = 3
  /\ \E a \in Flagged : \E b \in Flagged : \E c \in Flagged :
       /\ dom[dom[insts[b].host].parent].parent = insts[a].host
       /\ dom[insts[c].host].parent = dom[insts[b].host].parent
       /\ DocIndex(insts[b].host) < DocIndex(insts[c].host)
       /\ \A i \in {a, b, c} : "mounted" \in Range(insts[i].calls)

\* C14: over mounts, writes, update() and destroy() calls the mounted flag of an
\* instance is set at most once and its mounted hook is called at most once:
\* the flags a step sets for an instance, added to the mounted hooks it had
\* before the step, are at most one, and so are the mounted hooks after it.
C14_MountsAtMostOnce ==
  [][\A i \in DOMAIN insts' :
       /\ Cardinality(Positions(last'.log.seq, i, "flag"))
            + (IF i \in DOMAIN insts THEN Count(insts[i].calls, "mounted") ELSE 0) <= 1
       /\ Count(insts'[i].calls, "mounted") <= 1
       /\ (i \in DOMAIN insts /\ ~insts[i].isMounted /\ insts'[i].isMounted)
            => Positions(last'.log.seq, i, "flag") # {}]_vars

\* a second mount into the container, after an instance of the first mount
\* was destroyed and another one was left in place
C14_Witness ==
  /\ last.op = "mount" /\ mounts = 2 /\ Flagged # {}
  /\ \E i \in DOMAIN insts : \E j \in DOMAIN insts :
       /\ i \notin Flagged /\ j \notin Flagged
       /\ "mounted" \in Range(insts[i].calls) /\ ~insts[i].isMounted
       /\ "mounted" \in Range(insts[j].calls) /\ insts[j].isMounted

\* C15: when mount returns, every instance created during it, whatever its
\* depth and whether its host is an element or a fragment, is flagged mounted
\* and has had its mounted hook called exactly once.
C15_AllCreatedAreMounted ==
  (last.op = "mount" /\ Returned)
    => \A i \in Range(last.log.creates) :
         /\ insts[i].isMounted
         /\ "mounted" \in MetaTable[insts[i].type].hooks
              => Count(last.log.hooks, <<i, "mounted">>) = 1

\* C16: setStoreValue with a value other than the one the cell holds stores it
\* and calls every subscriber of the key once, before it returns, in the order
\* they subscribed; with the value the cell holds, or when it creates the cell,
\* it calls no subscriber.
C16_SetNotifiesInOrder ==
  last.op = "set"
    => /\ Returned
       /\ store[last.field].has /\ store[last.field].value = last.value
       /\ IF last.cells[last.field].has /\ last.cells[last.field].value # last.value
            THEN last.log.listeners = last.cells[last.field].listeners
            ELSE last.log.listeners = <<>>

\* a set of a new value on a key with subscribers of three instances or more,
\* one of them not mounted
C16_Witness ==
  /\ last.op = "set" /\ last.cells[last.field].value # last.value
  /\ Cardinality({l[1] : l \in Range(last.log.listeners)}) >= 3
  /\ \E l \in Range(last.log.listeners) : ~insts[l[1]].isMounted

\* the instances the last operation created that have a field linked to key k
CreatedLinked(k) == {i \in Range(last.log.creates) : i \in LinkedTo(k)}

\* C17: an operation that creates instances with fields linked to a store key
\* leaves a cell that existed before with the value it had, and seeds a cell
\* that did not exist with the initial value of the field (0 in these classes);
\* the linked fields of the instances created read the value of the cell.
C17_SeedOnlyIfAbsent ==
  (last.op \in {"mount", "update"} /\ Returned)
    => \A k \in StoreKeys :
         CreatedLinked(k) # {}
           => /\ store[k].has
              /\ store[k].value = IF last.cells[k].has THEN last.cells[k].value ELSE 0
              /\ \A i \in CreatedLinked(k) : \A f \in DOMAIN insts[i].bound :
                   StoreIdOf(insts[i].type, f) = k => Peek(i, f) = store[k].value

\* an instance with a linked field was created when the cell already held
\* something else than the field's initial value
C17_Witness ==
  /\ last.op = "mount" /\ Returned
  /\ \E k \in StoreKeys :
       /\ CreatedLinked(k) # {}
       /\ last.cells[k].has /\ last.cells[k].value # 0
       /\ \A i \in CreatedLinked(k) : Peek(i, "counter") = last.cells[k].value

\* the types without a declared render entry
Unrendered == {T \in Types : MetaTable[T].renderMethodName = ""}

\* the nodes of kind `kind` among the children of node n
KidsOfKind(n, kind) == {k \in Range(dom[n].kids) : dom[k].kind = kind}

\* the types of the instances the last operation created, in creation order
CreatedTypes == [k \in DOMAIN last.log.creates |-> insts[last.log.creates[k]].type]

\* C18: a type without a render entry never yields an instance; where the
\* walker meets one, nothing is constructed, no hook runs, no listener is
\* bound, the store is left as it was (no cell, no subscriber), and a comment
\* node stands in its place while the elements after it are still realized.
C18_NoRenderEntryNoInstance ==
  /\ \A i \in DOMAIN insts : insts[i].type \notin Unrendered
  /\ \A n \in DOMAIN dom : dom[n].kind = "comment" => dom[n].inst = 0 /\ dom[n].listeners = <<>>
  /\ (last.op = "mount" /\ last.type \in Unrendered)
       => /\ Returned
          /\ last.log.creates = <<>> /\ last.log.hooks = <<>> /\ last.log.seq = <<>>
          /\ store = last.cells
          /\ Len(dom[Container].kids) = 1 /\ KidsOfKind(Container, "comment") # {}
  /\ (last.op = "mount" /\ last.type = "Page")
       => /\ Returned
          /\ CreatedTypes = <<"Page", "Thrower", "Group">>
          /\ \A e \in Range(last.log.hooks) : insts[e[1]].type \notin Unrendered
          /\ store = last.cells
          /\ \E n \in Range(insts[last.log.creates[1]].nodes) :
               /\ dom[n].kids # <<>>
               /\ dom[dom[n].kids[1]].kind = "comment"
               /\ insts[last.log.creates[2]].host \in Range(dom[n].kids)

\* a tree with an element of a type without render entry was mounted, and
\* the instances after it exist
C18_Witness ==
  /\ last.op = "mount" /\ last.type = "Page"
  /\ \E i, j \in DOMAIN insts : insts[i].type = "Thrower" /\ insts[j].type = "Group"
  /\ \E n \in DOMAIN dom : dom[n].kind = "comment" /\ InDocument(dom, n)

RECURSIVE Ancestors(_)
\* the nodes above node n in the tree
Ancestors(n) == IF dom[n].parent = 0 THEN {} ELSE {dom[n].parent} \cup Ancestors(dom[n].parent)

\* the instances that declare an error-capture hook and whose host encloses
\* the host of instance i
Boundaries(i) ==
  {j \in DOMAIN insts : /\ j # i
                        /\ MetaTable[insts[j].type].errorCapturedMethodName # ""
                        /\ insts[j].host \in Ancestors(insts[i].host)}

\* the nearest of them: the one whose host is deepest
Nearest(i) ==
  CHOOSE j \in Boundaries(i) :
    \A k \in Boundaries(i) : Cardinality(Ancestors(insts[k].host)) <= Cardinality(Ancestors(insts[j].host))

\* the instances whose render entry ran in the last operation and threw
ThrewInRender ==
  {e[1] : e \in {x \in Range(last.log.seq) : x[2] = "render"
                                              /\ MetaTable[insts[x[1]].type].template.k = "throw"}}

\* C19: when the render entry of a nested instance without error-capture hook
\* throws, the error-capture hook of the nearest enclosing instance that
\* declares one receives the exception.
C19_ChildErrorReachesBoundary ==
  \A i \in ThrewInRender :
    (MetaTable[insts[i].type].errorCapturedMethodName = "" /\ Boundaries(i) # {})
      => \E c \in Range(last.log.captured) : c[1] = Nearest(i)

\* the store-linked fields, by instance, of the instances that are in the
\* document and were not destroyed (destroy takes the host out of it)
AttachedLinks(k) ==
  UNION {{<<i, f>> : f \in {g \in DOMAIN insts[i].bound : StoreIdOf(insts[i].type, g) = k}} :
           i \in {j \in DOMAIN insts : InDocument(dom, insts[j].host)}}

\* C20: the subscribers of a store key never outnumber the store-linked
\* fields of the instances still attached: the subscriptions of a child whose
\* nodes its parent's update discarded are released.
C20_SubscribersAreAttached ==
  \A k \in StoreKeys : Len(store[k].listeners) <= Cardinality(AttachedLinks(k))

\* the watch handlers class T declares for field f, in declaration order
HandlersOf(T, f) == Lookup(MetaTable[T].watchHandlers, f, <<>>)

\* the places in the step log of the last operation where instance i did
\* `kind` for one of `names`
StepPos(i, kind, names) ==
  {k \in DOMAIN last.log.steps :
     last.log.steps[k][1] = i /\ last.log.steps[k][2] = kind /\ last.log.steps[k][3] \in names}

\* every step of A comes before every step of B
Before(A, B) == \A a \in A : \A b \in B : a < b

\* the calls of the handlers hs of instance i in the last operation
WatchCalls(i, hs) == SelectSeq(last.log.watch, LAMBDA e : e[1] = i /\ e[2] \in Range(hs))

\* C21: a value-changing write to a state field of a mounted instance first
\* reflects the value to the host, then calls the field's watch handlers in
\* declaration order with (new, old), then recomputes each dependent computed
\* field and calls its watch handlers, and only then runs the update pass,
\* whose render shows the recomputed values.  The steps are those of one
\* write: an operation in which a handler writes a field again holds the
\* steps of two writes, each in this order, and is not compared as one.
C21_WriteStepsInOrder ==
  (ChangingWrite /\ Returned /\ last.wasMounted /\ IsPlainState(last.type, last.field)
     /\ Len(last.log.writes) = 1)
    => LET i == last.inst
           f == last.field
           T == last.type
           deps == Dependents(T, f)
           refl == StepPos(i, "reflect", {f})
           wat == StepPos(i, "watch", Range(HandlersOf(T, f)))
           cwat == StepPos(i, "watch", UNION {Range(HandlersOf(T, c)) : c \in deps})
           upd == StepPos(i, "update", {""})
           ren == StepPos(i, "render", {""})
       IN /\ insts[i].bound[f] \in {"property", "style"} => refl # {}
          /\ Before(refl, wat \cup StepPos(i, "eval", deps) \cup cwat \cup upd)
          /\ WatchCalls(i, HandlersOf(T, f))
               = [k \in DOMAIN HandlersOf(T, f) |-> <<i, HandlersOf(T, f)[k], last.value, last.old>>]
          /\ Before(wat, StepPos(i, "eval", deps) \cup cwat \cup upd)
          /\ \A c \in deps :
               \E e \in StepPos(i, "eval", {c}) :
                 Before({e}, StepPos(i, "watch", Range(HandlersOf(T, c))) \cup upd)
          /\ Before(cwat, upd)
          /\ upd # {} /\ ren # {} /\ Before(upd, ren)
          /\ \A k \in DOMAIN TplFields(T) :
               (TplFields(T)[k] \in deps /\ k \in DOMAIN Shown(i))
                 => Shown(i)[k] = ToString(Fresh(i, TplFields(T)[k]))

\* a write went through all four steps: a reflection, two handlers of the
\* field, a dependent with its own handler, and the render
C21_Witness ==
  /\ ChangingWrite /\ Returned /\ last.wasMounted /\ last.type = "Ordered"
  /\ StepPos(last.inst, "reflect", {last.field}) # {}
  /\ Cardinality(StepPos(last.inst, "watch", Range(HandlersOf(last.type, last.field)))) = 2
  /\ StepPos(last.inst, "watch", {"onArea"}) # {}
  /\ StepPos(last.inst, "render", {""}) # {}
  /\ Shown(last.inst) = <<ToString(Fresh(last.inst, "area"))>>

\* the calls of throwing watch handlers of instance i in the last operation
ThrowingCalls(i) ==
  SelectSeq(last.log.watch, LAMBDA e : e[1] = i /\ e[2] \in MetaTable[insts[i].type].throwers)

\* what the error-capture hook of a class does: "none" when the class has no
\* hook, "rethrow" when the hook returns false, "contain" otherwise
HookKind(T) ==
  CASE MetaTable[T].errorCapturedMethodName = "" -> "none"
    [] MetaTable[T].errorCapturedMethodName = "rethrow" -> "rethrow"
    [] OTHER -> "contain"

\* C22: when a watch handler throws during a write, a class without
\* error-capture hook or with a hook that does not return false sees the write
\* through: the other handlers of the field, the dependent computed fields and
\* the re-render all run and nothing escapes; with a hook that returns false the
\* exception escapes the write, after the hook received it.
C22_WatchErrorContained ==
  (last.op = "write" /\ ThrowingCalls(last.inst) # <<>>)
    => LET i == last.inst
           T == last.type
           f == last.field
       IN IF HookKind(T) = "rethrow"
            THEN /\ last.exc = "Error"
                 /\ last.log.captured = <<<<i, "Error">>>>
                 /\ Len(ThrowingCalls(i)) = 1
            ELSE /\ Returned
                 /\ WatchCalls(i, HandlersOf(T, f))
                      = [k \in DOMAIN HandlersOf(T, f) |-> <<i, HandlersOf(T, f)[k], last.value, last.old>>]
                 /\ \A c \in Dependents(T, f) : StepPos(i, "eval", {c}) # {}
                 /\ last.wasMounted => StepPos(i, "update", {""}) # {} /\ StepPos(i, "render", {""}) # {}
                 /\ HookKind(T) = "none" => last.log.captured = <<>>
                 /\ HookKind(T) = "contain"
                      => Len(SelectSeq(last.log.captured, LAMBDA e : e = <<i, "Error">>))
                           >= Len(ThrowingCalls(i))

\* both a handler of the field and the handler of its dependent threw in one
\* write that an error-capture hook contained, and the render still ran
C22_Witness ==
  /\ last.op = "write" /\ last.type = "Guarded" /\ last.wasMounted /\ Returned
  /\ Len(ThrowingCalls(last.inst)) = 2
  /\ StepPos(last.inst, "render", {""}) # {}

\* the dependents of field f of class T whose getter throws on the value v
ThrowingDependents(T, f, v) ==
  {c \in Dependents(T, f) : c \in MetaTable[T].badGetters /\ v = MaxVal}

\* C23: when the getter of a dependent computed field throws while a write
\* recomputes it, the error-capture hook of the class (if any) receives the
\* exception, the exception escapes the write only if that hook returns false,
\* and otherwise the write completes with its re-render.
C23_GetterErrorRouted ==
  (ChangingWrite /\ ThrowingDependents(last.type, last.field, last.value) # {})
    => /\ HookKind(last.type) # "none" => <<last.inst, "Error">> \in Range(last.log.captured)
       /\ last.exc # "" => HookKind(last.type) = "rethrow"
       /\ (HookKind(last.type) # "rethrow" /\ last.wasMounted)
            => StepPos(last.inst, "render", {""}) # {}

\* the fields on which the render entry of class T throws when they hold MaxVal
RenderThrowsOn(T) ==
  {MetaTable[T].template.kids[k].f :
     k \in {j \in DOMAIN MetaTable[T].template.kids : MetaTable[T].template.kids[j].k = "throwIf"}}

\* the render entry of the instance the last operation was called on threw in
\* an update pass
RenderThrewInUpdate ==
  /\ last.op \in {"write", "update"}
  /\ last.inst \notin Range(last.log.creates)
  /\ StepPos(last.inst, "threw", {"render"}) # {}

\* C24: when the render entry throws in an update pass of a class without
\* error-capture hook, or with one that does not return false, nothing escapes
\* the update or the write that caused it, every update pass begun is ended by
\* the updated hook, and the instance stays mounted; the next value-changing
\* write to a state field runs an update pass and the render entry again.
C24_RenderErrorContained ==
  /\ (RenderThrewInUpdate /\ HookKind(last.type) # "rethrow")
       => /\ Returned
          /\ Count(last.log.updates, last.inst) >= 1
          /\ Count(last.log.hooks, <<last.inst, "updated">>) = Count(last.log.updates, last.inst)
          /\ insts[last.inst].isMounted
  /\ (ChangingWrite /\ last.wasMounted /\ last.old = MaxVal
        /\ last.field \in RenderThrowsOn(last.type) /\ HookKind(last.type) # "rethrow")
       => /\ Returned
          /\ StepPos(last.inst, "update", {""}) # {}
          /\ StepPos(last.inst, "render", {""}) # {}
          /\ insts[last.inst].isMounted

\* after an update pass whose render threw, a write made the render entry
\* run again, and this time it returned an element
C24_Witness ==
  /\ ChangingWrite /\ last.wasMounted /\ last.old = MaxVal /\ last.type = "Fragile"
  /\ last.field \in RenderThrowsOn(last.type)
  /\ StepPos(last.inst, "render", {""}) # {}
  /\ StepPos(last.inst, "threw", {"render"}) = {}
  /\ Shown(last.inst) # <<>>

\* the update passes the step just taken ran: each as the instance and its
\* place in the step log
UpdatePasses ==
  {<<last'.log.steps[k][1], k>> : k \in {j \in DOMAIN last'.log.steps : last'.log.steps[j][2] = "update"}}

\* C25: update() of an instance whose mounted flag is false calls no hook and
\* no render entry and leaves every node and every instance as it was; an
\* update pass only ever runs for an instance that was mounted before the
\* operation or was flagged mounted earlier in it, so a write made before the
\* flag is set (in the before-mount hook for one) causes no update pass.
C25_UnmountedUpdateIsNoOp ==
  [][/\ (last'.op = "update" /\ ~insts[last'.inst].isMounted)
          => /\ UNCHANGED <<store, insts, dom, depsMap, contextStack>>
             /\ last'.log = NoLog
             /\ last'.exc = ""
      /\ \A p \in UpdatePasses :
           \/ p[1] \in DOMAIN insts /\ insts[p[1]].isMounted
           \/ \E j \in 1..(p[2] - 1) : last'.log.steps[j] = <<p[1], "flag", "">>]_vars

\* the before-mount hook of a new instance wrote a state field, and no update
\* pass ran before the instance was mounted; the first render shows the value
C25_Witness ==
  /\ last.op = "mount" /\ last.type = "Early" /\ Returned
  /\ \E i \in Range(last.log.creates) :
       /\ <<i, "n", MaxVal, 0>> \in Range(last.log.writes)
       /\ i \notin Range(last.log.updates)
       /\ insts[i].isMounted
       /\ Shown(i) = <<ToString(MaxVal)>>

\* C26: an update pass of a mounted instance detaches every node of the
\* previous render, leaves nothing of it under the host, and ends with the
\* instance holding exactly the nodes the new render produced, none of them a
\* node of the previous render.
C26_UpdateReplacesNodes ==
  \A k \in DOMAIN last.log.swaps :
    LET e == last.log.swaps[k]
    IN (Returned /\ dom[insts[e.inst].host].kind = "element")
         => /\ e.attached = 0
            /\ e.stale = 0
            /\ e.listed
            /\ e.reused = 0

\* the keys the instances created by the last operation are linked to
CreatedKeys ==
  UNION {{sf[2] : sf \in Range(MetaTable[insts[last.log.creates[c]].type].storeFields)} :
           c \in DOMAIN last.log.creates}

\* C27: hasStore changes nothing and answers whether the cell exists; a cell
\* comes to exist only in an operation that gets, sets or subscribes its key
\* (the application's, or those of an instance being created), and every such
\* operation leaves the cell in place; getStoreValue of a key without a cell
\* creates it with the value undefined and no listener; a cell that exists
\* before an operation exists after it, whatever the operation
C27_CellsAreKept ==
  last.op # "init" =>
    /\ \A k \in CellKeys : last.cells[k].has => store[k].has
    /\ last.op = "has" => /\ store = last.cells
                          /\ last.found = last.cells[last.field].has
    /\ \A k \in CellKeys :
         (store[k].has /\ ~last.cells[k].has)
           => \/ last.op \in {"get", "set", "subscribe"} /\ last.field = k
              \/ k \in CreatedKeys
    /\ last.op \in {"get", "set", "subscribe"} => store[last.field].has
    /\ (last.op = "get" /\ ~last.cells[last.field].has)
         => /\ store[last.field] = [has |-> TRUE, value |-> Undefined, listeners |-> <<>>]
            /\ last.value = Undefined

\* the cell outlived its last subscriber: its only listener was unsubscribed
C27_Witness ==
  /\ last.op = "unsubscribe"
  /\ last.cells[last.field].listeners # <<>>
  /\ store[last.field].listeners = <<>>
  /\ store[last.field].has

\* C28: calling the function subscribeStore(key, cb) returned removes cb from
\* the key's listeners and leaves the others as they were, in their order, and
\* every other cell unchanged; calling it once more changes nothing; a set
\* invokes no callback all of whose unsubscribe functions were called
C28_UnsubscribeIsFinal ==
  [][
      /\ last'.op = "unsubscribe"
        => LET h == last'.handle
               k == handles[h].key
               l == <<0, handles[h].cb>>
           IN /\ ~Has(store'[k].listeners, l)
              /\ store'[k].listeners = SelectSeq(store[k].listeners, LAMBDA x : x # l)
              /\ \A j \in CellKeys \ {k} : store'[j] = store[j]
              /\ handles[h].called => store' = store
      /\ last'.op = "set"
        => \A g \in DOMAIN handles :
             (handles[g].key = last'.field
                /\ \A e \in DOMAIN handles :
                     (handles[e].key = handles[g].key /\ handles[e].cb = handles[g].cb)
                       => handles[e].called)
               => ~Has(last'.log.listeners, <<0, handles[g].cb>>)
    ]_vars

\* C29: between two operations (no evaluation is running) no computed field
\* is in its own dependency set, and the reverse index of no class lists a
\* computed field among the dependents of itself
C29_NoSelfDependency ==
  /\ \A i \in DOMAIN insts : \A c \in Range(MetaTable[insts[i].type].computedFields) :
       ~Has(insts[i].cinfo[c].deps, c)
  /\ \A T \in Types : \A c \in Range(MetaTable[T].computedFields) :
       ~Has(depsMap[T][c].items, c)

\* the kind of accessor the declarations of field f of class T call for
KindOf(T, f) ==
  IF IsStoreLinked(T, f) THEN "store"
  ELSE IF Has(Keys(MetaTable[T].propertyBindings), f) THEN "property"
  ELSE IF Has(Keys(MetaTable[T].styleBindings), f) THEN "style"
  ELSE IF Has(MetaTable[T].styleLayoutFields, f) THEN "style-layout"
  ELSE "state"

\* the lists of the descriptor that name field f
Declarations(T, f) ==
  Count(Keys(MetaTable[T].storeFields), f) + Count(Keys(MetaTable[T].propertyBindings), f)
    + Count(Keys(MetaTable[T].styleBindings), f) + Count(MetaTable[T].styleLayoutFields, f)
    + Count(MetaTable[T].stateFields, f)

\* the step wrote a new value to field f of instance i and to no other field
OnlyWrite(i, f) ==
  /\ last'.op = "write" /\ last'.inst = i /\ last'.field = f
  /\ last'.value # last'.old
  /\ last'.exc = "" /\ ~last'.diverged
  /\ \A w \in Range(last'.log.writes) : w[1] = i /\ w[2] = f

Outer(stack) == SubSeq(stack, 1, Len(stack) - 1)

\* a read of field f of object i left every context but the innermost one of
\* owner i as it was, and added at most f to that one
ReadKept(before, after, i, f) ==
  /\ Len(after) = Len(before)
  /\ before # <<>> => /\ Outer(after) = Outer(before)
                      /\ after[Len(after)].instance = before[Len(before)].instance
                      /\ before[Len(before)].instance # i => after = before
                      /\ Range(after[Len(after)].deps) \subseteq Range(before[Len(before)].deps) \cup {f}
                      /\ Range(before[Len(before)].deps) \subseteq Range(after[Len(after)].deps)

\* C31: in both trackers the open contexts form a stack: startTracking puts an
\* empty context of its owner on top, endTracking takes the top one off and
\* returns what was collected in it, and returns an empty set without an
\* exception when none is open; a recorded read changes no context but the
\* innermost one, and that one only if the reader owns it
C31_ContextsFormAStack ==
  [][
      /\ last'.op = "startTracking"
           => /\ Outer(fixed'.contextStack) = fixed.contextStack
              /\ fixed'.contextStack[Len(fixed'.contextStack)].instance = last'.inst
              /\ fixed'.contextStack[Len(fixed'.contextStack)].deps = <<>>
      /\ last'.op = "endTracking"
           => /\ last'.exc = ""
              /\ IF fixed.contextStack = <<>>
                   THEN last'.deps = <<>> /\ fixed'.contextStack = <<>>
                   ELSE /\ last'.deps = fixed.contextStack[Len(fixed.contextStack)].deps
                        /\ fixed'.contextStack = Outer(fixed.contextStack)
      /\ last'.op = "recordDependency"
           => ReadKept(fixed.contextStack, fixed'.contextStack, last'.inst, last'.field)
      /\ last'.op = "Comp1.startTracking"
           => /\ Outer(contextStack') = contextStack
              /\ contextStack'[Len(contextStack')].instance = last'.inst
              /\ contextStack'[Len(contextStack')].deps = <<>>
      /\ last'.op = "Comp1.endTracking"
           => IF contextStack = <<>>
                THEN last'.deps = <<>> /\ contextStack' = <<>>
                ELSE /\ last'.deps = contextStack[Len(contextStack)].deps
                     /\ contextStack' = Outer(contextStack)
      /\ last'.op = "Comp1.recordDependency"
           => ReadKept(contextStack, contextStack', last'.inst, last'.field)
    ]_vars

\* a read was recorded in the innermost of two contexts of different owners,
\* and the outer one does not hold it
C31_Witness ==
  /\ last.op = "recordDependency"
  /\ Len(fixed.contextStack) = 2
  /\ fixed.contextStack[1].instance # fixed.contextStack[2].instance
  /\ fixed.contextStack[2].instance = last.inst
  /\ Has(fixed.contextStack[2].deps, last.field)
  /\ ~Has(fixed.contextStack[1].deps, last.field)

\* the calls of startComputing by owner i that the application has not ended
OpenComputing(F, i) ==
  Cardinality({k \in DOMAIN F.open : F.open[k][1] = "computing" /\ F.open[k][2] = i})

\* the compute functions of owner i that the last call ran
EvaluatedOf(F, i) ==
  Cardinality({k \in DOMAIN F.evaluated : F.evaluated[k][1] = i})

\* C32: the nesting counter of every owner is between 0 and
\* MAX_COMPUTATION_DEPTH and equals the number of its startComputing calls
\* not yet ended, so it is 0 when none is; startComputing answers false and
\* changes nothing when the counter is at the maximum or the field is in the
\* computing set of the top context, and otherwise, under a top context of
\* the owner, answers true, adds the field and counts one up; the matching
\* endComputing undoes that; safelyComputeValue leaves the counter as it
\* found it and never has more than MAX_COMPUTATION_DEPTH evaluations nested
C32_DepthIsBounded ==
  [][
      /\ \A i \in TrackerOwners :
           /\ fixed'.computationDepth[i] \in 0..MAX_COMPUTATION_DEPTH
           /\ fixed'.computationDepth[i] = OpenComputing(fixed', i)
      /\ last'.op = "startComputing"
           => LET i == last'.inst
                  top == fixed.contextStack[Len(fixed.contextStack)]
              IN IF TopIs(fixed, i) /\ last'.field \notin top.computingFields
                      /\ fixed.computationDepth[i] < MAX_COMPUTATION_DEPTH
                   THEN /\ last'.found
                        /\ fixed'.computationDepth = [fixed.computationDepth EXCEPT ![i] = @ + 1]
                        /\ fixed'.contextStack[Len(fixed.contextStack)].computingFields
                             = top.computingFields \cup {last'.field}
                   ELSE /\ ~last'.found
                        /\ fixed'.computationDepth = fixed.computationDepth
                        /\ fixed'.contextStack = fixed.contextStack
      /\ last'.op = "endComputing"
           => /\ fixed'.computationDepth
                   = [fixed.computationDepth EXCEPT ![last'.inst] = @ - 1]
              /\ last'.field \notin fixed'.contextStack[Len(fixed'.contextStack)].computingFields
      /\ last'.op = "safelyComputeValue"
           => /\ fixed'.computationDepth = fixed.computationDepth
              /\ fixed'.contextStack = fixed.contextStack
              /\ fixed.computationDepth[last'.inst] + EvaluatedOf(fixed', last'.inst)
                   <= MAX_COMPUTATION_DEPTH
    ]_vars

\* a chain of computed fields longer than the maximum was evaluated down to
\* the maximum depth, the next evaluation was refused, and the counter is 0
C32_Witness ==
  /\ last.op = "safelyComputeValue" /\ last.field = "k1"
  /\ Len(fixed.evaluated) = MAX_COMPUTATION_DEPTH
  /\ Len(Chain) > MAX_COMPUTATION_DEPTH
  /\ fixed.computationDepth[last.inst] = 0

\* C33: after a write has returned, every field in the dependency set that an
\* instance holds for a computed field lists that computed field in the
\* reverse index of the instance's class
C33_DepsAreIndexed ==
  (last.op = "write" /\ Returned)
    => \A i \in DOMAIN insts : \A c \in Range(MetaTable[insts[i].type].computedFields) :
         \A d \in Range(insts[i].cinfo[c].deps) :
           Has(depsMap[insts[i].type][d].items, c)

\* C34: after update() of a mounted instance has returned, every instance the
\* update created whose host is attached below the updated instance's host
\* has its mounted flag set and, if its class has a mounted hook, received it
C34_UpdateMountsChildren ==
  (last.op = "update" /\ last.wasMounted /\ Returned)
    => \A c \in Range(last.log.creates) :
         insts[last.inst].host \in Ancestors(insts[c].host)
           => /\ insts[c].isMounted
              /\ "mounted" \in MetaTable[insts[c].type].hooks
                   => Has(last.log.hooks, <<c, "mounted">>)

\* C35: after update() of a mounted instance with a fragment host has
\* returned, the nodes it rendered are in the document
C35_FragmentUpdateStaysInDocument ==
  (last.op = "update" /\ last.wasMounted /\ Returned
     /\ dom[insts[last.inst].host].kind = "fragment")
    => \A k \in DOMAIN insts[last.inst].nodes :
         InDocument(dom, insts[last.inst].nodes[k])

\* the calls of handler h of instance i in the last operation, in order
CallsOf(i, h) == SelectSeq(last.log.watch, LAMBDA e : e[1] = i /\ e[2] = h)

\* C36: when a write from outside has returned, the (new, old) pairs each
\* watch handler of the written field received are chained: the first old
\* value is the value before the write, each further old value is the new
\* value of the call before, and the last new value is the value the field
\* holds
C36_WatchPairsChained ==
  (last.op = "write" /\ Returned)
    => \A h \in Range(Lookup(MetaTable[last.type].watchHandlers, last.field, <<>>)) :
         LET calls == CallsOf(last.inst, h)
         IN calls # <<>>
              => /\ calls[1][4] = last.old
                 /\ \A k \in 2..Len(calls) : calls[k][4] = calls[k - 1][3]
                 /\ calls[Len(calls)][3] = Held(last.inst, last.field)

\* C37: a write of a new value to a store-linked field of a mounted instance
\* (a value-changing write to the store key) runs exactly one update pass of
\* each mounted instance linked to the key
C37_OneUpdatePerSubscriber ==
  (ChangingWrite /\ Returned /\ IsStoreLinked(last.type, last.field) /\ last.wasMounted)
    => \A i \in LinkedTo(StoreIdOf(last.type, last.field)) :
         insts[i].isMounted => Count(last.log.updates, i) = 1

\* C38: a write that throws because the error-capture hook returned false for
\* the exception of a watch handler leaves the field with the value it had, the host
\* node as it was, every computed value of the instance as it was cached and
\* the rendered nodes as they were
C38_FailedWriteHasNoEffect ==
  [][
      \A i \in DOMAIN insts : \A f \in ValueFields(MetaTable[insts[i].type]) :
        (last'.op = "write" /\ last'.inst = i /\ last'.field = f /\ last'.exc # ""
           /\ last'.log.captured # <<>>)
          => /\ Held(i, f)' = Held(i, f)
             /\ dom'[insts'[i].host] = dom[insts[i].host]
             /\ \A c \in Range(MetaTable[insts[i].type].computedFields) :
                  insts'[i].cinfo[c].cached = insts[i].cinfo[c].cached
             /\ insts'[i].nodes = insts[i].nodes
             /\ \A k \in DOMAIN insts[i].nodes : dom'[insts[i].nodes[k]] = dom[insts[i].nodes[k]]
    ]_vars

Computable(i, f) ==
  /\ ~fixed.infos[i][f].computing
  /\ fixed.computationDepth[i] < MAX_COMPUTATION_DEPTH
  /\ TopIs(fixed, i) => f \notin fixed.contextStack[Len(fixed.contextStack)].computingFields

\* C40: safelyComputeValue for a field that is not being computed, with the
\* owner's counter below the maximum, runs the compute function once, leaves
\* the reads it made as info.deps and, unless the function throws, returns
\* its result, whatever context is on top of the stack or none
C40_ComputesOnce ==
  [][
      \A i \in TrackerOwners : \A f \in EntryFields :
        (last'.op = "safelyComputeValue" /\ last'.inst = i /\ last'.field = f /\ Computable(i, f))
          => /\ Count(fixed'.evaluated, <<i, f>>) = 1
             /\ fixed'.infos[i][f].deps = ReadsOf(f)
             /\ last'.exc = "" => last'.value = ResultOf(f)
    ]_vars

====
